---- MODULE Spec2Model ----
(***************************************************************************)
(* The repository analysis pipeline of StackCompass:                       *)
(* POST /analyze-repository of supabase/functions/analyze-repository.      *)
(*                                                                         *)
(* Texts (reviewer responses, file paths) are sequences of tokens whose    *)
(* concatenation is the string: a token is one character ("*", "-", " ",   *)
(* "\n", a digit, ...) or a run of characters that no step of the code     *)
(* splits (a section header, a word).  File contents are the decoded text. *)
(***************************************************************************)
EXTENDS Integers, Sequences, FiniteSets, TLC

(***************************************************************************)
(* Bounds of the model.                                                    *)
(***************************************************************************)
\* entries of a tree listing in the specification Spec
MaxTree == 3
\* code files of a tree listing in the specification SpecBatch
MaxFiles == 12

(***************************************************************************)
(* Sequence helpers.                                                       *)
(***************************************************************************)
Min(a, b) == IF a < b THEN a ELSE b
Max(a, b) == IF a > b THEN a ELSE b

Range(s) == {s[i] : i \in 1..Len(s)}

\* String.prototype.includes on token sequences
Includes(s, sub) ==
  \E i \in 1..(Len(s) - Len(sub) + 1) : SubSeq(s, i, i + Len(sub) - 1) = sub

\* String.prototype.endsWith on token sequences
EndsWith(s, suf) ==
  /\ Len(suf) <= Len(s)
  /\ SubSeq(s, Len(s) - Len(suf) + 1, Len(s)) = suf

RECURSIVE SumSeq(_)
SumSeq(s) == IF s = <<>> THEN 0 ELSE Head(s) + SumSeq(Tail(s))

(***************************************************************************)
(* cleanAiResponse: the five replacements, each as the regular expression  *)
(* engine performs it (global, multiline; \s matches " " and "\n").        *)
(***************************************************************************)
IsWs(c) == c \in {" ", "\n"}
IsDigit(c) == c \in {"0", "1", "2", "3", "4", "5", "6", "7", "8", "9"}

\* ^ with the m flag: position p (1-based) starts the input or follows "\n"
LineStart(t, p) == p = 1 \/ t[p - 1] = "\n"

\* first position >= p that holds no whitespace (Len(t)+1 if none)
RECURSIVE SkipWs(_, _)
SkipWs(t, p) == IF p <= Len(t) /\ IsWs(t[p]) THEN SkipWs(t, p + 1) ELSE p

\* first position >= p that holds no digit
RECURSIVE SkipDigits(_, _)
SkipDigits(t, p) == IF p <= Len(t) /\ IsDigit(t[p]) THEN SkipDigits(t, p + 1) ELSE p

\* text.replace(/\*/g, '')
RemoveAsterisks(t) == SelectSeq(t, LAMBDA c : c # "*")

\* cleaned.replace(/#+\s*/g, ''): every run of # and the whitespace after it
RECURSIVE RemoveHeaders(_, _, _)
RemoveHeaders(t, p, skip) ==
  IF p > Len(t) THEN <<>>
  ELSE IF t[p] = "#" THEN RemoveHeaders(t, p + 1, TRUE)
  ELSE IF skip /\ IsWs(t[p]) THEN RemoveHeaders(t, p + 1, TRUE)
  ELSE <<t[p]>> \o RemoveHeaders(t, p + 1, FALSE)

\* cleaned.replace(/^\s*[-*]\s+/gm, '')
RECURSIVE RemoveListItems(_, _)
RemoveListItems(t, p) ==
  IF p > Len(t) THEN <<>>
  ELSE LET q == SkipWs(t, p) IN
       IF /\ LineStart(t, p)
          /\ q + 1 <= Len(t)
          /\ t[q] \in {"-", "*"}
          /\ IsWs(t[q + 1])
       THEN RemoveListItems(t, SkipWs(t, q + 1))
       ELSE <<t[p]>> \o RemoveListItems(t, p + 1)

\* the last "\n" of t[p..q-1], 0 if there is none
LastNewline(t, p, q) ==
  LET nl == {r \in p..(q - 1) : t[r] = "\n"} IN
  IF nl = {} THEN 0 ELSE CHOOSE r \in nl : \A r2 \in nl : r2 <= r

\* cleaned.replace(/^\s*|\s*$/gm, '')
RECURSIVE TrimLines(_, _)
TrimLines(t, p) ==
  IF p > Len(t) THEN <<>>
  ELSE LET q == SkipWs(t, p) IN
       IF LineStart(t, p) /\ q > p THEN TrimLines(t, q)
       ELSE IF ~LineStart(t, p) /\ IsWs(t[p]) /\ q > Len(t) THEN <<>>
       ELSE IF ~LineStart(t, p) /\ IsWs(t[p]) /\ LastNewline(t, p, q) > p
            THEN TrimLines(t, LastNewline(t, p, q))
       ELSE <<t[p]>> \o TrimLines(t, p + 1)

\* cleaned.replace(/^\s*(\d+)\.\s+/gm, '$1. ')
RECURSIVE PlainNumbers(_, _)
PlainNumbers(t, p) ==
  IF p > Len(t) THEN <<>>
  ELSE LET q == SkipWs(t, p)
           d == SkipDigits(t, q)
       IN IF /\ LineStart(t, p)
             /\ d > q
             /\ d + 1 <= Len(t)
             /\ t[d] = "."
             /\ IsWs(t[d + 1])
          THEN SubSeq(t, q, d - 1) \o <<".", " ">> \o PlainNumbers(t, SkipWs(t, d + 1))
          ELSE <<t[p]>> \o PlainNumbers(t, p + 1)

cleanAiResponse(text) ==
  LET c1 == RemoveAsterisks(text)
      c2 == RemoveHeaders(c1, 1, FALSE)
      c3 == RemoveListItems(c2, 1)
      c4 == TrimLines(c3, 1)
  IN PlainNumbers(c4, 1)

(***************************************************************************)
(* validateResponseFormat.                                                 *)
(***************************************************************************)
HdrScore == "SCORE:"
HdrPurpose == "FILE PURPOSE:"
HdrQuality == "CODE QUALITY REVIEW:"
HdrArchitecture == "ARCHITECTURE ANALYSIS:"
HdrSecurity == "SECURITY REVIEW:"
HdrDebt == "TECHNICAL DEBT ASSESSMENT:"
HdrTop5 == "TOP 5 ACTIONABLE RECOMMENDATIONS:"

ForbiddenChars == {"*", "#", "_", "-"}

\* the structure test of 102 alone, without the character test of 100
validateResponseFormatLax(text) ==
  IF ~Includes(text, <<HdrScore>>) \/ ~Includes(text, <<HdrTop5>>) THEN FALSE
  ELSE TRUE

validateResponseFormat(text) ==
  IF Range(text) \cap ForbiddenChars # {} THEN FALSE
  ELSE IF ~Includes(text, <<HdrScore>>) \/ ~Includes(text, <<HdrTop5>>) THEN FALSE
  ELSE TRUE

(***************************************************************************)
(* Tree entries and the file filter.  A path is a token sequence.          *)
(***************************************************************************)
codeExtensions ==
  { <<".", e>> : e \in {"js", "jsx", "ts", "tsx", "py", "java", "cpp", "c", "cs",
                        "php", "rb", "go", "rs", "kt", "swift", "vue", "svelte",
                        "dart", "scala", "clj", "hs", "ml", "r", "sql"} }
configExtensions ==
  { <<".", e>> : e \in {"json", "yml", "yaml", "toml", "xml", "ini", "env", "config"} }
docExtensions == { <<".", e>> : e \in {"md", "txt", "rst"} }

PackageJson == <<"package", ".", "json">>
RequirementsTxt == <<"requirements", ".", "txt">>
CargoToml == <<"Cargo", ".", "toml">>
GoMod == <<"go", ".", "mod">>

\* the names of the configFiles filter (line 229)
manifestNames ==
  { <<"package", ".", "json">>, <<"composer", ".", "json">>,
    <<"requirements", ".", "txt">>, <<"pom", ".", "xml">>,
    <<"build", ".", "gradle">>, <<"Cargo", ".", "toml">>, <<"go", ".", "mod">> }
\* the names of the allFiles filter (line 182)
configFileNames == manifestNames \cup { <<"Dockerfile">> }

\* if (file.size > 100000) return false
MaxFileSize == 100000

hasRelevantExtension(file) ==
  \E ext \in codeExtensions \cup configExtensions \cup docExtensions :
    EndsWith(file.path, ext)
isConfigFile(file) == \E name \in configFileNames : EndsWith(file.path, name)

\* Relevant without the size ceiling
RelevantAnySize(file) ==
  IF file.type # "blob" THEN FALSE
  ELSE IF \/ Includes(file.path, <<"node_modules">>)
          \/ Includes(file.path, <<".", "git">>)
          \/ Includes(file.path, <<"dist", "/">>)
          \/ Includes(file.path, <<"build", "/">>) THEN FALSE
  ELSE hasRelevantExtension(file) \/ isConfigFile(file)

\* the predicate of treeData.tree.filter
Relevant(file) ==
  IF file.type # "blob" THEN FALSE
  ELSE IF \/ Includes(file.path, <<"node_modules">>)
          \/ Includes(file.path, <<".", "git">>)
          \/ Includes(file.path, <<"dist", "/">>)
          \/ Includes(file.path, <<"build", "/">>) THEN FALSE
  ELSE IF file.size > MaxFileSize THEN FALSE
  ELSE hasRelevantExtension(file) \/ isConfigFile(file)

allFilesOf(tree) == SelectSeq(tree, Relevant)

IsCode(f) == \E ext \in codeExtensions : EndsWith(f.path, ext)
IsConfig(f) ==
  \/ \E ext \in configExtensions : EndsWith(f.path, ext)
  \/ \E name \in manifestNames : EndsWith(f.path, name)

codeFilesOf(tree) == SelectSeq(allFilesOf(tree), IsCode)
configFilesOf(tree) == SelectSeq(allFilesOf(tree), IsConfig)

\* file.path.split('.').pop() || 'unknown', as the tokens after the last "."
RECURSIVE LastDot(_, _)
LastDot(path, p) ==
  IF p = 0 THEN 0 ELSE IF path[p] = "." THEN p ELSE LastDot(path, p - 1)

fileExtensionOf(path) ==
  LET tail == SubSeq(path, LastDot(path, Len(path)) + 1, Len(path))
  IN IF tail = <<>> THEN <<"unknown">> ELSE tail

(***************************************************************************)
(* The tree listings the repository host may return.                       *)
(***************************************************************************)
Entry(path, type, size) == [path |-> path, type |-> type, size |-> size]

Catalogue ==
  << Entry(<<"src", "/", "a", ".", "ts">>, "blob", 1200),
     Entry(<<"package", ".", "json">>, "blob", 300),
     Entry(<<"b", ".", "py">>, "blob", 40),
     Entry(<<"node_modules", "/", "x", ".", "js">>, "blob", 10),
     Entry(<<"big", ".", "ts">>, "blob", 100001),
     Entry(<<"README", ".", "md">>, "blob", 50),
     Entry(<<"src">>, "tree", 0) >>

\* the entries of Catalogue at the positions in S, in the order of Catalogue
RECURSIVE Pick(_, _)
Pick(S, i) ==
  IF i > Len(Catalogue) THEN <<>>
  ELSE (IF i \in S THEN <<Catalogue[i]>> ELSE <<>>) \o Pick(S, i + 1)

Trees ==
  { Pick(S, 1) : S \in {S \in SUBSET (1..Len(Catalogue)) : Cardinality(S) <= MaxTree} }

\* code files f1.ts, f2.ts, ... of the large listings
FileNames ==
  << "f1", "f2", "f3", "f4", "f5", "f6", "f7", "f8", "f9", "f10", "f11", "f12",
     "f13", "f14", "f15", "f16", "f17", "f18", "f19", "f20", "f21", "f22" >>

BigTree(n) ==
  (IF n > 0 THEN <<Entry(<<"package", ".", "json">>, "blob", 300)>> ELSE <<>>)
  \o [i \in 1..n |-> Entry(<<FileNames[i], ".", "ts">>, "blob", 100)]

BigTrees == { BigTree(n) : n \in 0..MaxFiles }

(***************************************************************************)
(* Parsing of a validated reviewer response (lines 435-454).               *)
(***************************************************************************)
\* the i flag of the regular expressions: headers match in either case
Fold(tok) ==
  CASE tok = "score:" -> HdrScore
    [] tok = "code quality review:" -> HdrQuality
    [] tok = "architecture analysis:" -> HdrArchitecture
    [] tok = "security review:" -> HdrSecurity
    [] tok = "technical debt assessment:" -> HdrDebt
    [] tok = "top 5 actionable recommendations:" -> HdrTop5
    [] OTHER -> tok

DigitVal(c) ==
  CASE c = "0" -> 0 [] c = "1" -> 1 [] c = "2" -> 2 [] c = "3" -> 3 [] c = "4" -> 4
    [] c = "5" -> 5 [] c = "6" -> 6 [] c = "7" -> 7 [] c = "8" -> 8 [] c = "9" -> 9

\* parseInt of the digits t[p..q-1]
RECURSIVE ParseInt(_, _, _, _)
ParseInt(t, p, q, acc) ==
  IF p >= q THEN acc ELSE ParseInt(t, p + 1, q, 10 * acc + DigitVal(t[p]))

\* analysis.match(/SCORE:\s*(\d+)/i): the digits after the first SCORE: that
\* is followed by digits; <<>> when there is no match, else <<value>>
RECURSIVE scoreMatch(_, _)
scoreMatch(t, p) ==
  IF p > Len(t) THEN <<>>
  ELSE LET q == SkipWs(t, p + 1)
           d == SkipDigits(t, q)
       IN IF Fold(t[p]) = HdrScore /\ d > q THEN <<ParseInt(t, q, d, 0)>>
          ELSE scoreMatch(t, p + 1)

\* scoreMatch ? Math.min(10, Math.max(1, parseInt(scoreMatch[1]))) : 7
DefaultFileScore == 7

\* fileScoreOf without Math.min and Math.max
fileScoreOfUnclamped(analysis) ==
  LET m == scoreMatch(analysis, 1) IN
  IF m # <<>> THEN m[1] ELSE DefaultFileScore

fileScoreOf(analysis) ==
  LET m == scoreMatch(analysis, 1) IN
  IF m # <<>> THEN Min(10, Max(1, m[1])) ELSE DefaultFileScore

\* first position >= p whose token is a header of the set stops (Len(t)+1 if none)
RECURSIVE NextStop(_, _, _)
NextStop(t, p, stops) ==
  IF p > Len(t) \/ Fold(t[p]) \in stops THEN p ELSE NextStop(t, p + 1, stops)

\* String.prototype.trim
RECURSIVE TrimLeft(_)
TrimLeft(t) == IF t # <<>> /\ IsWs(Head(t)) THEN TrimLeft(Tail(t)) ELSE t
RECURSIVE TrimRight(_)
TrimRight(t) ==
  IF t # <<>> /\ IsWs(t[Len(t)]) THEN TrimRight(SubSeq(t, 1, Len(t) - 1)) ELSE t
Trim(t) == TrimRight(TrimLeft(t))

\* analysis.match(/HDR\s*([^]*?)(?=STOP1|STOP2|...|$)/i)[1].trim();
\* <<>> when the header is absent or its body is blank
SectionOf(analysis, hdr, stops) ==
  LET h == NextStop(analysis, 1, {hdr}) IN
  IF h > Len(analysis) THEN <<>>
  ELSE LET q == SkipWs(analysis, h + 1)
           e == NextStop(analysis, q, stops)
       IN Trim(SubSeq(analysis, q, e - 1))

qualityIssuesMatch(analysis) ==
  SectionOf(analysis, HdrQuality, {HdrArchitecture, HdrSecurity, HdrDebt, HdrTop5})
securityIssuesMatch(analysis) ==
  SectionOf(analysis, HdrSecurity, {HdrQuality, HdrArchitecture, HdrDebt, HdrTop5})
recommendationsMatch(analysis) ==
  SectionOf(analysis, HdrTop5, {HdrQuality, HdrArchitecture, HdrSecurity, HdrDebt})

\* `${file.path}: ${body}`
Labelled(path, body) == [file |-> path, text |-> body]

(***************************************************************************)
(* Detection rules.                                                        *)
(***************************************************************************)
\* Set.prototype.add on an insertion-ordered set
\* SetAdd that keeps the newest element only
SetAddReplacing(set, x) == <<x>>

SetAdd(set, x) == IF x \in Range(set) THEN set ELSE Append(set, x)

RECURSIVE SetAddAll(_, _)
SetAddAll(set, xs) ==
  IF xs = <<>> THEN set ELSE SetAddAll(SetAdd(set, Head(xs)), Tail(xs))

\* the tags of the rules whose condition holds, in the order of the rules
RECURSIVE Tags(_)
Tags(rules) ==
  IF rules = <<>> THEN <<>>
  ELSE (IF Head(rules)[1] THEN <<Head(rules)[2]>> ELSE <<>>) \o Tags(Tail(rules))

Has(content, tok) == Includes(content, <<tok>>)

\* lines 328-331
architectureTags(content) ==
  Tags(<< <<Has(content, "class ") /\ Has(content, "extends"), "Object-Oriented">>,
          <<Has(content, "function") /\ Has(content, "=>"), "Functional Programming">>,
          <<Has(content, "import") /\ Has(content, "from"), "Modular Architecture">>,
          <<Has(content, "async") /\ Has(content, "await"), "Asynchronous Programming">> >>)

\* lines 332-334
codeFrameworkTags(content) ==
  Tags(<< <<Has(content, "useState") \/ Has(content, "useEffect"), "React Hooks">>,
          <<Has(content, "@Component") \/ Has(content, "@Injectable"), "Angular">>,
          <<Has(content, "@RestController") \/ Has(content, "@Service"), "Spring Boot">> >>)

\* A manifest's content: valid says whether JSON.parse accepts it, names are
\* its dependency names (package.json: the keys of dependencies and
\* devDependencies) or its lines, each a token sequence.
ManifestContent(valid, names) == [valid |-> valid, names |-> names]

AnyHas(names, tok) == \E j \in 1..Len(names) : Has(names[j], tok)

\* lines 257-262 and 263-269, for one dependency name
depFrameworkTags(dep) ==
  Tags(<< <<Has(dep, "react"), "React">>, <<Has(dep, "vue"), "Vue.js">>,
          <<Has(dep, "angular"), "Angular">>, <<Has(dep, "express"), "Express.js">>,
          <<Has(dep, "next"), "Next.js">>, <<Has(dep, "svelte"), "Svelte">> >>)
depToolTags(dep) ==
  Tags(<< <<Has(dep, "webpack"), "Webpack">>, <<Has(dep, "vite"), "Vite">>,
          <<Has(dep, "typescript"), "TypeScript">>, <<Has(dep, "eslint"), "ESLint">>,
          <<Has(dep, "prettier"), "Prettier">>, <<Has(dep, "jest"), "Jest">>,
          <<Has(dep, "cypress"), "Cypress">> >>)
\* lines 279-285, for one line of requirements.txt
lineFrameworkTags(line) ==
  Tags(<< <<Has(line, "django"), "Django">>, <<Has(line, "flask"), "Flask">>,
          <<Has(line, "fastapi"), "FastAPI">>, <<Has(line, "tensorflow"), "TensorFlow">>,
          <<Has(line, "pytorch"), "PyTorch">> >>)
lineToolTags(line) ==
  Tags(<< <<Has(line, "pandas"), "Pandas">>, <<Has(line, "numpy"), "NumPy">> >>)

\* the rules of one kind applied to one dependency name or line
RuleTags(kind, x) ==
  CASE kind = "depFramework" -> depFrameworkTags(x)
    [] kind = "depTool" -> depToolTags(x)
    [] kind = "lineFramework" -> lineFrameworkTags(x)
    [] kind = "lineTool" -> lineToolTags(x)

\* forEach over the dependency names or the lines
RECURSIVE ForEach(_, _)
ForEach(kind, xs) ==
  IF xs = <<>> THEN <<>> ELSE RuleTags(kind, Head(xs)) \o ForEach(kind, Tail(xs))

\* manifestFrameworkTags that reads the dependencies of a package.json
\* whatever JSON.parse says
manifestFrameworkTagsUnparsed(path, content) ==
  (IF EndsWith(path, PackageJson)
   THEN ForEach("depFramework", content.names) ELSE <<>>)
  \o (IF EndsWith(path, RequirementsTxt)
      THEN ForEach("lineFramework", content.names) ELSE <<>>)

\* the frameworks a manifest adds (lines 252-299)
manifestFrameworkTags(path, content) ==
  (IF EndsWith(path, PackageJson) /\ content.valid
   THEN ForEach("depFramework", content.names) ELSE <<>>)
  \o (IF EndsWith(path, RequirementsTxt)
      THEN ForEach("lineFramework", content.names) ELSE <<>>)
  \o (IF EndsWith(path, CargoToml)
      THEN Tags(<< <<TRUE, "Rust">>, <<AnyHas(content.names, "tokio"), "Tokio">>,
                   <<AnyHas(content.names, "actix"), "Actix Web">> >>) ELSE <<>>)
  \o (IF EndsWith(path, GoMod)
      THEN Tags(<< <<TRUE, "Go Modules">>, <<AnyHas(content.names, "gin-gonic"), "Gin">>,
                   <<AnyHas(content.names, "gorilla"), "Gorilla">> >>) ELSE <<>>)

\* the tools a manifest adds
manifestToolTags(path, content) ==
  (IF EndsWith(path, PackageJson) /\ content.valid
   THEN ForEach("depTool", content.names) ELSE <<>>)
  \o (IF EndsWith(path, RequirementsTxt)
      THEN ForEach("lineTool", content.names) ELSE <<>>)

(***************************************************************************)
(* ScoreAggregator (lines 474-485) and the summary's average (488-489).    *)
(* JavaScript numbers are IEEE-754 doubles.  A non-negative double is kept *)
(* exactly, as a count of units of 2^-55 written little-endian in four     *)
(* limbs of 15 bits (the top limb is not reduced); every arithmetic result *)
(* is rounded to a 53-bit significand, ties to even, as the hardware does. *)
(***************************************************************************)
\* const batchSize = 10
batchSize == 10
\* while (attempts < 3 && !validResponse)
MaxAttempts == 3

Scores(insights) == [j \in 1..Len(insights) |-> insights[j].score]

Limb == 32768

RECURSIVE Pow2(_)
Pow2(k) == IF k = 0 THEN 1 ELSE 2 * Pow2(k - 1)

RECURSIVE BitsOf(_)
BitsOf(v) == IF v = 0 THEN 0 ELSE 1 + BitsOf(v \div 2)

\* carries (or borrows) moved up so that the three low limbs lie in 0..Limb-1
Carry(raw) ==
  LET l2 == raw[2] + (raw[1] \div Limb)
      l3 == raw[3] + (l2 \div Limb)
      l4 == raw[4] + (l3 \div Limb)
  IN <<raw[1] % Limb, l2 % Limb, l3 % Limb, l4>>

ExactSum(a, b) == Carry([j \in 1..4 |-> a[j] + b[j]])
\* a - b for a >= b
ExactDifference(a, b) == Carry([j \in 1..4 |-> a[j] - b[j]])
ExactTimes(a, k) == Carry([j \in 1..4 |-> a[j] * k])

Less(a, b) ==
  \E j \in 1..4 : a[j] < b[j] /\ \A h \in (j + 1)..4 : a[h] = b[h]

BitLength(a) ==
  IF a[4] > 0 THEN 45 + BitsOf(a[4])
  ELSE IF a[3] > 0 THEN 30 + BitsOf(a[3])
  ELSE IF a[2] > 0 THEN 15 + BitsOf(a[2])
  ELSE BitsOf(a[1])

\* the double nearest to the exact value a, ties to the even significand
RoundToDouble(a) ==
  LET len == BitLength(a) IN
  IF len <= 53 THEN a
  ELSE LET ulp == Pow2(len - 53)
           r == a[1] % ulp
           down == [a EXCEPT ![1] = a[1] - r]
           odd == (a[1] \div ulp) % 2 = 1
       IN IF 2 * r > ulp \/ (2 * r = ulp /\ odd)
          THEN ExactSum(down, <<ulp, 0, 0, 0>>)
          ELSE down

DoubleZero == <<0, 0, 0, 0>>
\* the literals 1 and 2 of Math.min(1, ...) and Math.min(2, ...)
DoubleOne == <<0, 0, 0, 1024>>
DoubleTwo == <<0, 0, 0, 2048>>
\* the literal 0.5 is exact; 0.2 and 0.3 are the nearest doubles,
\* 7205759403792794 * 2^-55 and 5404319552844595 * 2^-54
DoubleHalf == <<0, 0, 0, 512>>
DoublePoint2 == <<6554, 13107, 26214, 204>>
DoublePoint3 == <<26214, 19660, 6553, 307>>

\* size * literal
Times(k, literal) == RoundToDouble(ExactTimes(literal, k))
\* a + b
Plus(a, b) == RoundToDouble(ExactSum(a, b))
\* Math.min(a, b)
MathMin(a, b) == IF Less(b, a) THEN b ELSE a

\* sum / n for integers sum >= 0 and n > 0 whose quotient is 0 or lies in
\* [1/8, 256): the exponent e has 2^e <= sum/n < 2^(e+1)
Quotient(sum, n) ==
  IF sum = 0 THEN DoubleZero
  ELSE LET e == CHOOSE p \in (0 - 3)..7 :
                  n * Pow2(p + 3) <= 8 * sum /\ 8 * sum < n * Pow2(p + 4)
           \* floor(sum * 2^(52-e) / n) by short division, limb by limb
           n4 == sum * Pow2(7 - e)
           n3 == (n4 % n) * Limb
           n2 == (n3 % n) * Limb
           n1 == (n2 % n) * Limb
           q == <<n1 \div n, n2 \div n, n3 \div n, n4 \div n>>
           r == n1 % n
           odd == q[1] % 2 = 1
           significand == IF 2 * r > n \/ (2 * r = n /\ odd)
                          THEN ExactSum(q, <<1, 0, 0, 0>>) ELSE q
       IN ExactTimes(significand, Pow2(e + 3))

\* Math.round(a - b): the integer nearest to the double a - b, ties upwards
RoundedDifference(a, b) ==
  IF ~Less(a, b)
  THEN ExactSum(RoundToDouble(ExactDifference(a, b)), DoubleHalf)[4] \div 1024
  ELSE LET y == RoundToDouble(ExactDifference(b, a)) IN
       IF ~Less(DoubleHalf, y) THEN 0
       ELSE LET d == ExactDifference(y, DoubleHalf)
                whole == d[4] \div 1024
                exact == d[1] = 0 /\ d[2] = 0 /\ d[3] = 0 /\ d[4] % 1024 = 0
            IN 0 - (IF exact THEN whole ELSE whole + 1)

\* Math.round(avgCodeQuality + architectureBonus + frameworkBonus - securityPenalty)
roundedScoreOf(insights, nPatterns, nFrameworks, nSecurity) ==
  LET avgCodeQuality == Quotient(SumSeq(Scores(insights)), Len(insights))
      architectureBonus == IF nPatterns > 0
                           THEN MathMin(DoubleTwo, Times(nPatterns, DoubleHalf))
                           ELSE DoubleZero
      frameworkBonus == IF nFrameworks > 0
                        THEN MathMin(DoubleOne, Times(nFrameworks, DoublePoint2))
                        ELSE DoubleZero
      securityPenalty == IF nSecurity > 0
                         THEN MathMin(DoubleTwo, Times(nSecurity, DoublePoint3))
                         ELSE DoubleZero
  IN RoundedDifference(Plus(Plus(avgCodeQuality, architectureBonus), frameworkBonus),
                       securityPenalty)

\* finalScoreOf without the clamp to [1,10]
finalScoreOfUnclamped(insights, nPatterns, nFrameworks, nSecurity) ==
  IF Len(insights) > 0
  THEN roundedScoreOf(insights, nPatterns, nFrameworks, nSecurity)
  ELSE 1

\* finalScoreOf without the else branch: the initial 0 stays when no file was reviewed
finalScoreOfNoElse(insights, nPatterns, nFrameworks, nSecurity) ==
  IF Len(insights) > 0
  THEN Max(1, Min(10, roundedScoreOf(insights, nPatterns, nFrameworks, nSecurity)))
  ELSE 0

finalScoreOf(insights, nPatterns, nFrameworks, nSecurity) ==
  IF Len(insights) > 0
  THEN Max(1, Min(10, roundedScoreOf(insights, nPatterns, nFrameworks, nSecurity)))
  ELSE 1

\* Math.round(avg * 10) / 10, in tenths
avgQualityOf(insights) ==
  LET n == Len(insights) IN
  IF n > 0 THEN (20 * SumSeq(Scores(insights)) + n) \div (2 * n) ELSE 0

(***************************************************************************)
(* What the external services may answer.                                  *)
(***************************************************************************)
Ok(body) == [kind |-> "ok", body |-> body]
NotOk == [kind |-> "notok", body |-> <<>>]
Rejected == [kind |-> "throw", body |-> <<>>]

\* raw reviewer texts
TextMarkdown ==
  <<"#", "#", " ", "*", "*", "SCORE:", "*", "*", " ", "8", "\n", "\n",
    "SECURITY REVIEW:", "\n", "-", " ", "eval", "\n",
    "TOP 5 ACTIONABLE RECOMMENDATIONS:", "\n", "1", ".", " ", " ", "test">>
TextPlain ==
  <<"SCORE:", " ", "1", "5", "\n", "CODE QUALITY REVIEW:", " ", "long", "\n",
    "TOP 5 ACTIONABLE RECOMMENDATIONS:">>
TextDash ==
  <<"SCORE:", " ", "6", "\n", "TOP 5 ACTIONABLE RECOMMENDATIONS:", "\n",
    "1", ".", " ", "well", "-", "known">>
TextNoMarker == <<"SCORE:", " ", "9", "\n", "fine">>
TextBare == <<"SCORE:", " ", "7", "\n", "TOP 5 ACTIONABLE RECOMMENDATIONS:">>

ReviewTexts == {TextMarkdown, TextPlain, TextDash, TextNoMarker}

\* decoded file contents; <<>> is an empty or missing content field
ContentOO == <<"class ", "A", "extends", "B">>
ContentHooks == <<"import", "useState", "from", "react">>
CodeContents == {<<>>, ContentOO, ContentHooks}

Manifests ==
  { ManifestContent(TRUE, << <<"react", "-dom">>, <<"vite">> >>),
    ManifestContent(FALSE, << <<"react">> >>) }

EnvAny(key) ==
  [ trees |-> Trees,
    groqApiKey |-> key,
    contents |-> [k \in 1..Len(FileNames) |->
                    {Ok(c) : c \in CodeContents} \cup {NotOk, Rejected}],
    reviews |-> {Ok(t) : t \in ReviewTexts} \cup {NotOk, Rejected},
    manifests |-> {Ok(m) : m \in Manifests} \cup {NotOk, Rejected} ]

\* services whose answers are fixed: the host serves the content of the code
\* files at odd positions and refuses the others, the reviewer answers well
EnvGood ==
  [ trees |-> BigTrees,
    groqApiKey |-> TRUE,
    contents |-> [k \in 1..Len(FileNames) |->
                    IF k % 2 = 1 THEN {Ok(ContentOO)} ELSE {NotOk}],
    reviews |-> {Ok(TextBare)},
    manifests |-> {Ok(ManifestContent(TRUE, << <<"react", "-dom">> >>))} ]

(***************************************************************************)
(* State of one run of POST /analyze-repository.                           *)
(***************************************************************************)
VARIABLES
  env,                  \* what the services of this run may answer
  req,                  \* the request: whether it has an authorization header
  pc,                   \* the await the handler is suspended at
  response,             \* the responses sent to the caller, in order
  record,               \* the row of table analyses
  statusLog,            \* the statuses written to the row, in order
  allFiles, codeFiles, configFiles,
  cfg,                  \* position in configFiles of the manifest being fetched
  i,                    \* the batch loop's i
  task,                 \* the batchPromises tasks, by position in codeFiles
  fileInsights, suggestions, languageStats, frameworks, tools,
  architecturePatterns, codeQualityIssues, securityIssues,
  batches,              \* the sizes of the batches started, in order
  hostRequests,         \* requests issued to the repository host so far
  reviewerRequests      \* requests issued to the reviewer so far

accvars == <<fileInsights, suggestions, languageStats, frameworks, tools,
             architecturePatterns, codeQualityIssues, securityIssues>>
filevars == <<allFiles, codeFiles, configFiles>>
loopvars == <<cfg, i, task, batches>>
vars == <<env, req, pc, response, record, statusLog, filevars, loopvars, accvars,
          hostRequests, reviewerRequests>>

NoRecord ==
  [status |-> "none", stack_score |-> <<>>, summary |-> <<>>, suggestions |-> <<>>,
   tech_stack |-> <<>>, file_insights |-> <<>>]

\* analysisRecord.id, the key of the inserted row
AnalysisId == "analysis-1"

\* PendingRecord of an insert that writes no row
PendingRecordMissing == NoRecord

\* insert({ user_id, repo_url, status: 'pending' })
PendingRecord == [NoRecord EXCEPT !.status = "pending"]

\* a task before batch.map reaches it
IdleTask ==
  [pc |-> "idle", attempts |-> 0, analysis |-> <<>>, validResponse |-> FALSE,
   result |-> <<>>, fetched |-> 0, calls |-> 0, got |-> <<>>]

InitWith(e) ==
  /\ env = e
  /\ req \in [authHeader : BOOLEAN]
  /\ pc = "idle"
  /\ response = <<>>
  /\ record = NoRecord
  /\ statusLog = <<>>
  /\ allFiles = <<>> /\ codeFiles = <<>> /\ configFiles = <<>>
  /\ cfg = 0 /\ i = 0 /\ task = <<>> /\ batches = <<>>
  /\ fileInsights = <<>> /\ suggestions = <<>> /\ languageStats = <<>>
  /\ frameworks = <<>> /\ tools = <<>> /\ architecturePatterns = <<>>
  /\ codeQualityIssues = <<>> /\ securityIssues = <<>>
  /\ hostRequests = 0 /\ reviewerRequests = 0

Init == \E key \in BOOLEAN : InitWith(EnvAny(key))
InitBatch == InitWith(EnvGood)

(***************************************************************************)
(* The catch block (lines 540-545) and the success responses.              *)
(***************************************************************************)
\* ErrorResponse without res.status(500)
ErrorResponseOk(msg) == [status |-> 200, error |-> msg, body |-> <<>>]

ErrorResponse(msg) == [status |-> 500, error |-> msg, body |-> <<>>]
SuccessResponse(body) == [status |-> 200, error |-> "", body |-> <<body>>]

\* a catch block that logs the error and sends nothing (542-544 left out)
ThrowSilent(msg) ==
  /\ pc' = "responded"
  /\ response' = response

Throw(msg) ==
  /\ pc' = "responded"
  /\ response' = Append(response, ErrorResponse(msg))

(***************************************************************************)
(* Continuations shared by the handler's steps: the code that runs from    *)
(* the top of the config loop, or of the batch loop, to the next await.    *)
(***************************************************************************)
\* batch.map(async (file) => ...): every task of the batch runs to its first
\* await, the fetch of the file's content
\* batchOf with a slice that is one element short
batchOfShort(i0, codes) == (i0 + 1)..Min(i0 + batchSize - 1, Len(codes))

batchOf(i0, codes) == (i0 + 1)..Min(i0 + batchSize, Len(codes))

EnterBatch(i0, codes, tk) ==
  /\ i' = i0
  /\ IF i0 < Len(codes)
     THEN /\ pc' = "batch"
          /\ task' = [k \in DOMAIN tk |->
                        IF k \in batchOf(i0, codes)
                        THEN [tk[k] EXCEPT !.pc = "fetch", !.fetched = @ + 1]
                        ELSE tk[k]]
          /\ batches' = Append(batches, Cardinality(batchOf(i0, codes)))
          /\ hostRequests' = hostRequests + Cardinality(batchOf(i0, codes))
     ELSE /\ pc' = "finalUpdate"
          /\ task' = tk
          /\ UNCHANGED <<batches, hostRequests>>

\* for (const file of configFiles), from position c on; then the batch loop
EnterConfig(c, confs, codes, tk) ==
  /\ cfg' = c
  /\ IF c <= Len(confs)
     THEN /\ pc' = "configFetch"
          /\ hostRequests' = hostRequests + 1
          /\ i' = 0 /\ task' = tk
          /\ UNCHANGED batches
     ELSE EnterBatch(0, codes, tk)

\* the handler without the test of the authorization header (112-114)
ReceiveUnchecked ==
  /\ pc = "idle"
  /\ pc' = "getUser"
  /\ UNCHANGED <<env, req, response, record, statusLog, filevars, loopvars, accvars,
                 hostRequests, reviewerRequests>>

(***************************************************************************)
(* The handler up to the tree listing.                                     *)
(***************************************************************************)
\* lines 107-122: the request arrives
Receive ==
  /\ pc = "idle"
  /\ IF ~req.authHeader
     THEN Throw("Authorization header missing")
     ELSE pc' = "getUser" /\ UNCHANGED response
  /\ UNCHANGED <<env, req, record, statusLog, filevars, loopvars, accvars,
                 hostRequests, reviewerRequests>>

\* lines 122-138: auth.getUser() answers; the insert is sent
GetUserResponse ==
  /\ pc = "getUser"
  /\ \E user \in BOOLEAN :
       IF ~user
       THEN Throw("User not authenticated")
       ELSE pc' = "insert" /\ UNCHANGED response
  /\ UNCHANGED <<env, req, record, statusLog, filevars, loopvars, accvars,
                 hostRequests, reviewerRequests>>

\* lines 130-156: the insert answers; the repository is requested
InsertResponse ==
  /\ pc = "insert"
  /\ \E insertError \in BOOLEAN :
       IF insertError
       THEN /\ Throw("Failed to create analysis record")
            /\ UNCHANGED <<record, statusLog, hostRequests>>
       ELSE /\ record' = PendingRecord
            /\ statusLog' = <<"pending">>
            /\ pc' = "fetchRepo"
            /\ hostRequests' = hostRequests + 1
            /\ UNCHANGED response
  /\ UNCHANGED <<env, req, filevars, loopvars, accvars, reviewerRequests>>

\* lines 156-165: the repository answers; the tree is requested
RepoResponse ==
  /\ pc = "fetchRepo"
  /\ \E o \in {"ok", "notok", "throw"} :
       CASE o = "ok" -> /\ pc' = "fetchTree"
                        /\ hostRequests' = hostRequests + 1
                        /\ UNCHANGED response
         [] o = "notok" -> /\ Throw("Repository not found or not accessible")
                           /\ UNCHANGED hostRequests
         [] o = "throw" -> /\ Throw("fetch failed")
                           /\ UNCHANGED hostRequests
  /\ UNCHANGED <<env, req, record, statusLog, filevars, loopvars, accvars,
                 reviewerRequests>>

\* lines 165-244 and 306-315: the tree answers; the files are filtered and
\* grouped, and the first manifest or the first batch is started
TreeResponse ==
  /\ pc = "fetchTree"
  /\ \E o \in {Ok(t) : t \in env.trees} \cup {NotOk, Rejected} :
       CASE o.kind = "ok" ->
              LET all == allFilesOf(o.body)
                  codes == codeFilesOf(o.body)
                  confs == configFilesOf(o.body)
              IN /\ allFiles' = all
                 /\ UNCHANGED response
                 /\ IF Len(all) = 0
                    THEN /\ pc' = "noFilesUpdate"
                         /\ UNCHANGED <<codeFiles, configFiles, loopvars, hostRequests>>
                    ELSE /\ codeFiles' = codes
                         /\ configFiles' = confs
                         /\ EnterConfig(1, confs, codes, [k \in 1..Len(codes) |-> IdleTask])
         [] o.kind = "notok" ->
              /\ Throw("Failed to fetch file tree")
              /\ UNCHANGED <<filevars, loopvars, hostRequests>>
         [] o.kind = "throw" ->
              /\ Throw("fetch failed")
              /\ UNCHANGED <<filevars, loopvars, hostRequests>>
  /\ UNCHANGED <<env, req, record, statusLog, accvars, reviewerRequests>>

(***************************************************************************)
(* The no-files branch (lines 189-213).                                    *)
(***************************************************************************)
NoFilesRecord ==
  [status |-> "completed", stack_score |-> <<1>>,
   summary |-> <<"Repository analyzed but no supported files found.">>,
   suggestions |-> <<"Add supported file types and frameworks to improve analysis">>,
   tech_stack |-> <<[languages |-> <<>>, frameworks |-> <<>>, tools |-> <<>>]>>,
   file_insights |-> <<>>]

NoFilesUpdateResponse ==
  /\ pc = "noFilesUpdate"
  /\ \E updateError \in BOOLEAN :
       IF updateError
       THEN /\ Throw("Failed to update analysis")
            /\ UNCHANGED <<record, statusLog>>
       ELSE /\ record' = NoFilesRecord
            /\ statusLog' = Append(statusLog, "completed")
            /\ pc' = "responded"
            /\ response' = Append(response,
                 SuccessResponse([success |-> TRUE, analysisId |-> AnalysisId,
                                  score |-> 1, filesAnalyzed |-> 0]))
  /\ UNCHANGED <<env, req, filevars, loopvars, accvars, hostRequests, reviewerRequests>>

(***************************************************************************)
(* The config loop (lines 240-304): one manifest's content answers.        *)
(***************************************************************************)
ConfigResponse ==
  /\ pc = "configFetch"
  /\ \E o \in env.manifests :
       LET path == configFiles[cfg].path IN
       IF o.kind = "ok"
       THEN /\ frameworks' = SetAddAll(frameworks, manifestFrameworkTags(path, o.body))
            /\ tools' = SetAddAll(tools, manifestToolTags(path, o.body))
       ELSE UNCHANGED <<frameworks, tools>>
  /\ EnterConfig(cfg + 1, configFiles, codeFiles, task)
  /\ UNCHANGED <<env, req, response, record, statusLog, filevars, fileInsights,
                 suggestions, languageStats, architecturePatterns,
                 codeQualityIssues, securityIssues, reviewerRequests>>

(***************************************************************************)
(* One batchPromises task (lines 312-467).                                 *)
(***************************************************************************)
\* Increment that writes back a count read before the other tasks wrote
IncrementStale(stats, ext) == [e \in DOMAIN stats \cup {ext} |-> IF e = ext THEN 1 ELSE stats[e]]

\* languageStats[ext] = (languageStats[ext] || 0) + 1
Increment(stats, ext) ==
  [e \in DOMAIN stats \cup {ext} |->
     IF e = ext THEN (IF ext \in DOMAIN stats THEN stats[ext] + 1 ELSE 1) ELSE stats[e]]

\* Abandon with a non-2xx response counted as one more failed attempt
AbandonRetrying(t, how) ==
  IF how = "notok" /\ t.attempts + 1 < MaxAttempts
  THEN [t EXCEPT !.attempts = @ + 1, !.calls = @ + 1, !.got = Append(@, how)]
  ELSE [t EXCEPT !.pc = "done", !.result = <<>>, !.got = Append(@, how)]

\* return null
Abandon(t, how) == [t EXCEPT !.pc = "done", !.result = <<>>, !.got = Append(@, how)]

Insight(file, analysis) ==
  [file |-> file.path, analysis |-> analysis, score |-> fileScoreOf(analysis),
   size |-> file.size, extension |-> fileExtensionOf(file.path)]

\* the push of a labelled section when its trimmed body is not empty
PushSection(list, path, body) ==
  IF body # <<>> THEN Append(list, Labelled(path, body)) ELSE list

\* lines 315-398: the file's content answers; languages and patterns are
\* recorded and the first reviewer call is sent
TaskContent(k) ==
  /\ pc = "batch"
  /\ task[k].pc = "fetch"
  /\ \E o \in env.contents[k] :
       IF o.kind # "ok" \/ o.body = <<>>
       THEN /\ task' = [task EXCEPT ![k] = [@ EXCEPT !.pc = "done", !.result = <<>>]]
            /\ UNCHANGED <<languageStats, architecturePatterns, frameworks,
                           reviewerRequests>>
       ELSE /\ languageStats' = Increment(languageStats, fileExtensionOf(codeFiles[k].path))
            /\ architecturePatterns' = SetAddAll(architecturePatterns, architectureTags(o.body))
            /\ frameworks' = SetAddAll(frameworks, codeFrameworkTags(o.body))
            /\ IF ~env.groqApiKey
               THEN /\ task' = [task EXCEPT ![k] = [@ EXCEPT !.pc = "done", !.result = <<>>]]
                    /\ UNCHANGED reviewerRequests
               ELSE /\ task' = [task EXCEPT ![k] = [@ EXCEPT !.pc = "review", !.calls = @ + 1]]
                    /\ reviewerRequests' = reviewerRequests + 1
  /\ UNCHANGED <<env, req, pc, response, record, statusLog, filevars, cfg, i, batches,
                 fileInsights, suggestions, tools, codeQualityIssues, securityIssues,
                 hostRequests>>

\* Reviewed with an attempt counter that is never incremented
ReviewedUncounted(t, file, text) ==
  LET analysis == cleanAiResponse(text)
      validResponse == validateResponseFormat(analysis)
      t1 == [t EXCEPT !.analysis = analysis, !.validResponse = validResponse]
  IN IF t.attempts < MaxAttempts /\ ~validResponse
     THEN [t1 EXCEPT !.calls = @ + 1, !.got = Append(@, "invalid")]
     ELSE IF ~validResponse
     THEN Abandon(t1, "invalid")
     ELSE [t1 EXCEPT !.pc = "done", !.result = <<Insight(file, analysis)>>,
                     !.got = Append(@, "valid")]

\* Reviewed with a loop that gives up at the first invalid response
ReviewedNoRetry(t, file, text) ==
  LET analysis == cleanAiResponse(text)
      validResponse == validateResponseFormat(analysis)
      t1 == [t EXCEPT !.analysis = analysis, !.validResponse = validResponse,
                      !.attempts = @ + 1]
  IN IF ~validResponse
     THEN Abandon(t1, "invalid")
     ELSE [t1 EXCEPT !.pc = "done", !.result = <<Insight(file, analysis)>>,
                     !.got = Append(@, "valid")]

\* Reviewed with a retry that fetches the file's content again
ReviewedRefetching(t, file, text) ==
  LET analysis == cleanAiResponse(text)
      validResponse == validateResponseFormat(analysis)
      attempts == t.attempts + 1
      t1 == [t EXCEPT !.analysis = analysis, !.validResponse = validResponse,
                      !.attempts = attempts]
  IN IF attempts < MaxAttempts /\ ~validResponse
     THEN [t1 EXCEPT !.calls = @ + 1, !.fetched = @ + 1, !.got = Append(@, "invalid")]
     ELSE IF ~validResponse
     THEN Abandon(t1, "invalid")
     ELSE [t1 EXCEPT !.pc = "done", !.result = <<Insight(file, analysis)>>,
                     !.got = Append(@, "valid")]

\* the body of the while loop after the reviewer answered with 2xx (413-427)
\* and the code after the loop (430-462)
Reviewed(t, file, text) ==
  LET analysis == cleanAiResponse(text)
      validResponse == validateResponseFormat(analysis)
      attempts == t.attempts + 1
      t1 == [t EXCEPT !.analysis = analysis, !.validResponse = validResponse,
                      !.attempts = attempts]
  IN IF attempts < MaxAttempts /\ ~validResponse
     THEN [t1 EXCEPT !.calls = @ + 1, !.got = Append(@, "invalid")]
     ELSE IF ~validResponse
     THEN Abandon(t1, "invalid")
     ELSE [t1 EXCEPT !.pc = "done", !.result = <<Insight(file, analysis)>>,
                     !.got = Append(@, "valid")]

\* lines 398-462: the reviewer answers
TaskReview(k) ==
  /\ pc = "batch"
  /\ task[k].pc = "review"
  /\ \E o \in env.reviews :
       LET file == codeFiles[k]
           t == IF o.kind = "ok" THEN Reviewed(task[k], file, o.body)
                ELSE Abandon(task[k], o.kind)
       IN /\ task' = [task EXCEPT ![k] = t]
          /\ reviewerRequests' = reviewerRequests + (t.calls - task[k].calls)
          /\ IF t.result # <<>>
             THEN /\ codeQualityIssues' =
                       PushSection(codeQualityIssues, file.path, qualityIssuesMatch(t.analysis))
                  /\ securityIssues' =
                       PushSection(securityIssues, file.path, securityIssuesMatch(t.analysis))
                  /\ suggestions' =
                       PushSection(suggestions, file.path, recommendationsMatch(t.analysis))
             ELSE UNCHANGED <<codeQualityIssues, securityIssues, suggestions>>
  /\ UNCHANGED <<env, req, pc, response, record, statusLog, filevars, cfg, i, batches,
                 fileInsights, languageStats, frameworks, tools, architecturePatterns,
                 hostRequests>>

\* validResults of a Promise.all that keeps nothing of a batch in which
\* some task failed
RECURSIVE validResultsAllOrNothing(_, _, _)
validResultsAllOrNothing(tk, lo, hi) ==
  IF \E k \in lo..hi : tk[k].result = <<>> THEN <<>>
  ELSE IF lo > hi THEN <<>>
  ELSE tk[lo].result \o validResultsAllOrNothing(tk, lo + 1, hi)

\* the results of a batch collected from its last position to its first
RECURSIVE validResultsReversed(_, _, _)
validResultsReversed(tk, lo, hi) ==
  IF lo > hi THEN <<>> ELSE tk[hi].result \o validResultsReversed(tk, lo, hi - 1)

\* batchResults.filter(result => result !== null), in the order of the batch
RECURSIVE validResults(_, _, _)
validResults(tk, lo, hi) ==
  IF lo > hi THEN <<>> ELSE tk[lo].result \o validResults(tk, lo + 1, hi)

\* BatchDone with a join that waits for the first task only
BatchDoneAny(i0) == \E k \in batchOf(i0, codeFiles) : task[k].pc = "done"

BatchDone(i0) == \A k \in batchOf(i0, codeFiles) : task[k].pc = "done"

\* lines 469-472 and the next turn of the batch loop: Promise.all resolves
BatchJoin ==
  /\ pc = "batch"
  /\ BatchDone(i)
  /\ fileInsights' = fileInsights
        \o validResults(task, i + 1, Min(i + batchSize, Len(codeFiles)))
  /\ EnterBatch(i + batchSize, codeFiles, task)
  /\ UNCHANGED <<env, req, response, record, statusLog, filevars, cfg, suggestions,
                 languageStats, frameworks, tools, architecturePatterns,
                 codeQualityIssues, securityIssues, reviewerRequests>>

(***************************************************************************)
(* The final update and the success response (lines 474-538).              *)
(***************************************************************************)
Take(s, n) == SubSeq(s, 1, Min(n, Len(s)))

finalScore ==
  finalScoreOf(fileInsights, Len(architecturePatterns), Len(frameworks), Len(securityIssues))

summary ==
  [files |-> Len(fileInsights), languages |-> Cardinality(DOMAIN languageStats),
   architecture |-> architecturePatterns, frameworks |-> frameworks,
   avgQuality |-> avgQualityOf(fileInsights), security |-> Len(securityIssues),
   quality |-> Len(codeQualityIssues)]

techStack ==
  [languages |-> languageStats, frameworks |-> frameworks, tools |-> tools,
   architecture_patterns |-> architecturePatterns,
   security_issues_count |-> Len(securityIssues),
   quality_issues_count |-> Len(codeQualityIssues)]

\* CompletedRecord with the three lists persisted whole, without slice
CompletedRecordUnsliced ==
  [status |-> "completed", stack_score |-> <<finalScore>>, summary |-> <<summary>>,
   suggestions |-> suggestions \o codeQualityIssues \o securityIssues,
   tech_stack |-> <<techStack>>, file_insights |-> fileInsights]

CompletedRecord ==
  [status |-> "completed", stack_score |-> <<finalScore>>, summary |-> <<summary>>,
   suggestions |-> Take(suggestions, 10) \o Take(codeQualityIssues, 5)
                     \o Take(securityIssues, 5),
   tech_stack |-> <<techStack>>, file_insights |-> fileInsights]

\* the final update without the test of updateError (523-526)
FinalUpdateResponseUnchecked ==
  /\ pc = "finalUpdate"
  /\ \E updateError \in BOOLEAN :
       /\ IF updateError
          THEN UNCHANGED <<record, statusLog>>
          ELSE /\ record' = CompletedRecord
               /\ statusLog' = Append(statusLog, "completed")
       /\ pc' = "responded"
       /\ response' = Append(response,
            SuccessResponse([success |-> TRUE, analysisId |-> AnalysisId,
                             score |-> finalScore,
                             filesAnalyzed |-> Len(fileInsights),
                             languages |-> Cardinality(DOMAIN languageStats),
                             frameworks |-> Len(frameworks),
                             securityIssues |-> Len(securityIssues)]))
  /\ UNCHANGED <<env, req, filevars, loopvars, accvars, hostRequests, reviewerRequests>>

FinalUpdateResponse ==
  /\ pc = "finalUpdate"
  /\ \E updated \in BOOLEAN :
       IF ~updated
       THEN /\ Throw("Failed to update analysis")
            /\ UNCHANGED <<record, statusLog>>
       ELSE /\ record' = CompletedRecord
            /\ statusLog' = Append(statusLog, "completed")
            /\ pc' = "responded"
            /\ response' = Append(response,
                 SuccessResponse([success |-> TRUE, analysisId |-> AnalysisId,
                                  score |-> finalScore,
                                  filesAnalyzed |-> Len(fileInsights),
                                  languages |-> Cardinality(DOMAIN languageStats),
                                  frameworks |-> Len(frameworks),
                                  securityIssues |-> Len(securityIssues)]))
  /\ UNCHANGED <<env, req, filevars, loopvars, accvars, hostRequests, reviewerRequests>>

(***************************************************************************)
(* The specifications.                                                     *)
(***************************************************************************)
Next ==
  \/ Receive
  \/ GetUserResponse
  \/ InsertResponse
  \/ RepoResponse
  \/ TreeResponse
  \/ NoFilesUpdateResponse
  \/ ConfigResponse
  \/ \E k \in DOMAIN task : TaskContent(k)
  \/ \E k \in DOMAIN task : TaskReview(k)
  \/ BatchJoin
  \/ FinalUpdateResponse

\* small listings, services that may answer anything
Spec == Init /\ [][Next]_vars

\* listings of up to MaxFiles code files, services whose answers are fixed
SpecBatch == InitBatch /\ [][Next]_vars

(***************************************************************************)
(* The score computation on its own: runs that have reached the final      *)
(* update with up to MaxInsights code files, each abandoned by the         *)
(* reviewer or reviewed with a score of ScoreSamples, and with any number  *)
(* of detected patterns and frameworks.                                    *)
(***************************************************************************)
MaxInsights == 2
MaxFrameworks == 5
ScoreSamples == {1, 4, 10}

AllPatterns ==
  <<"Object-Oriented", "Functional Programming", "Modular Architecture",
    "Asynchronous Programming">>
SomeFrameworks ==
  <<"React", "Vue.js", "Angular", "Express.js", "Next.js", "Svelte", "React Hooks",
    "Spring Boot">>

DigitsOf(n) ==
  LET d == <<"0", "1", "2", "3", "4", "5", "6", "7", "8", "9">> IN
  IF n >= 10 THEN <<d[(n \div 10) + 1], d[(n % 10) + 1]>> ELSE <<d[n + 1]>>

\* a response that passes validation, with the given score and with or
\* without a security section
ReviewWith(score, sec) ==
  <<"SCORE:", " ">> \o DigitsOf(score)
  \o (IF sec THEN <<"\n", "SECURITY REVIEW:", " ", "eval">> ELSE <<>>)
  \o <<"\n", "TOP 5 ACTIONABLE RECOMMENDATIONS:">>

FileOutcomes ==
  {[reviewed |-> FALSE, score |-> 1, sec |-> FALSE]}
  \cup [reviewed : {TRUE}, score : ScoreSamples, sec : BOOLEAN]

\* the task of a file whose content was fetched and whose first reviewer call
\* was answered as out says
TaskAfter(file, out) ==
  IF out.reviewed
  THEN Reviewed([IdleTask EXCEPT !.fetched = 1, !.calls = 1], file,
                ReviewWith(out.score, out.sec))
  ELSE Abandon([IdleTask EXCEPT !.fetched = 1, !.calls = 1], "notok")

RECURSIVE SecurityPushes(_, _, _)
SecurityPushes(tk, codes, k) ==
  IF k > Len(tk) THEN <<>>
  ELSE (IF tk[k].result # <<>>
        THEN PushSection(<<>>, codes[k].path, securityIssuesMatch(tk[k].analysis))
        ELSE <<>>) \o SecurityPushes(tk, codes, k + 1)

InitScore ==
  \E m \in 0..MaxInsights :
  \E outs \in [1..m -> FileOutcomes] :
  \E nPatterns \in 0..(IF m > 0 THEN Len(AllPatterns) ELSE 0) :
  \E nFrameworks \in 0..MaxFrameworks :
    LET manifest == Entry(PackageJson, "blob", 300)
        codes == [k \in 1..m |-> Entry(<<FileNames[k], ".", "ts">>, "blob", 100)]
        tk == [k \in 1..m |-> TaskAfter(codes[k], outs[k])]
    IN /\ env = [EnvAny(TRUE) EXCEPT !.trees = {<<manifest>> \o codes}]
       /\ req = [authHeader |-> TRUE]
       /\ pc = "finalUpdate"
       /\ response = <<>>
       /\ record = PendingRecord
       /\ statusLog = <<"pending">>
       /\ allFiles = <<manifest>> \o codes
       /\ codeFiles = codes
       /\ configFiles = <<manifest>>
       /\ cfg = 2
       /\ i = IF m > 0 THEN batchSize ELSE 0
       /\ task = tk
       /\ batches = IF m > 0 THEN <<m>> ELSE <<>>
       /\ fileInsights = validResults(tk, 1, m)
       /\ suggestions = <<>>
       /\ languageStats = [e \in (IF m > 0 THEN {<<"ts">>} ELSE {}) |-> m]
       /\ frameworks = SubSeq(SomeFrameworks, 1, nFrameworks)
       /\ tools = <<>>
       /\ architecturePatterns = SubSeq(AllPatterns, 1, nPatterns)
       /\ codeQualityIssues = <<>>
       /\ securityIssues = SecurityPushes(tk, codes, 1)
       /\ hostRequests = 3 + m
       /\ reviewerRequests = m

SpecScore == InitScore /\ [][FinalUpdateResponse]_vars

(***************************************************************************)
(* The final update after many reviews: up to MaxReviews code files were   *)
(* reviewed at the first attempt, the first nq of them with a quality      *)
(* section, the first ns with a security section and the first nr with     *)
(* recommendations, each count being none, half or all of the files.       *)
(***************************************************************************)
MaxReviews == 11

ReviewOf(quality, sec, rec) ==
  <<"SCORE:", " ", "7">>
  \o (IF quality THEN <<"\n", "CODE QUALITY REVIEW:", " ", "long">> ELSE <<>>)
  \o (IF sec THEN <<"\n", "SECURITY REVIEW:", " ", "eval">> ELSE <<>>)
  \o <<"\n", "TOP 5 ACTIONABLE RECOMMENDATIONS:">>
  \o (IF rec THEN <<" ", "test">> ELSE <<>>)

\* the pushes of lines 444-454 to one of the three lists, in file order
RECURSIVE Pushes(_, _, _, _)
Pushes(tk, codes, k, which) ==
  IF k > Len(tk) THEN <<>>
  ELSE (IF tk[k].result # <<>>
        THEN PushSection(<<>>, codes[k].path,
               CASE which = "quality" -> qualityIssuesMatch(tk[k].analysis)
                 [] which = "security" -> securityIssuesMatch(tk[k].analysis)
                 [] OTHER -> recommendationsMatch(tk[k].analysis))
        ELSE <<>>) \o Pushes(tk, codes, k + 1, which)

InitLists ==
  \E m \in 0..MaxReviews :
  \E nq \in {0, m \div 2, m} : \E ns \in {0, m \div 2, m} :
  \E nr \in {0, m \div 2, m} :
    LET manifest == Entry(PackageJson, "blob", 300)
        codes == [k \in 1..m |-> Entry(<<FileNames[k], ".", "ts">>, "blob", 100)]
        tk == [k \in 1..m |->
                 Reviewed([IdleTask EXCEPT !.fetched = 1, !.calls = 1], codes[k],
                          ReviewOf(k <= nq, k <= ns, k <= nr))]
        nBatches == (m + batchSize - 1) \div batchSize
    IN /\ env = [EnvAny(TRUE) EXCEPT !.trees = {<<manifest>> \o codes}]
       /\ req = [authHeader |-> TRUE]
       /\ pc = "finalUpdate"
       /\ response = <<>>
       /\ record = PendingRecord
       /\ statusLog = <<"pending">>
       /\ allFiles = <<manifest>> \o codes
       /\ codeFiles = codes
       /\ configFiles = <<manifest>>
       /\ cfg = 2
       /\ i = nBatches * batchSize
       /\ task = tk
       /\ batches = [b \in 1..nBatches |-> Min(batchSize, m - (b - 1) * batchSize)]
       /\ fileInsights = validResults(tk, 1, m)
       /\ suggestions = Pushes(tk, codes, 1, "recommendations")
       /\ languageStats = [e \in (IF m > 0 THEN {<<"ts">>} ELSE {}) |-> m]
       /\ frameworks = <<>>
       /\ tools = <<>>
       /\ architecturePatterns = <<>>
       /\ codeQualityIssues = Pushes(tk, codes, 1, "quality")
       /\ securityIssues = Pushes(tk, codes, 1, "security")
       /\ hostRequests = 3 + m
       /\ reviewerRequests = m

SpecLists == InitLists /\ [][FinalUpdateResponse]_vars

(***************************************************************************)
(* Runs over listings that mix files to analyse with entries the filter    *)
(* must drop: non-blob entries, entries under node_modules, .git, dist and *)
(* build, and entries above the size ceiling.  The services answer well.   *)
(***************************************************************************)
MaxListing == 3

ListingCatalogue ==
  << Entry(<<"src", "/", "a", ".", "ts">>, "blob", MaxFileSize),
     Entry(<<"package", ".", "json">>, "blob", 300),
     Entry(<<"README", ".", "md">>, "blob", 50),
     Entry(<<"node_modules", "/", "x", ".", "js">>, "blob", 10),
     Entry(<<".", "git", "/", "h", ".", "py">>, "blob", 10),
     Entry(<<"dist", "/", "bundle", ".", "js">>, "blob", 10),
     Entry(<<"build", "/", "out", ".", "js">>, "blob", 10),
     Entry(<<"lib", "/", "build", "/", "package", ".", "json">>, "blob", 10),
     Entry(<<"big", ".", "ts">>, "blob", MaxFileSize + 1),
     Entry(<<"sub", "/", "go", ".", "mod">>, "blob", MaxFileSize + 1),
     Entry(<<"pkg", ".", "ts">>, "tree", 0),
     Entry(<<"vendor", "/", "requirements", ".", "txt">>, "commit", 0) >>

\* the entries of a catalogue at the positions in S, in the catalogue's order
RECURSIVE PickFrom(_, _, _)
PickFrom(cat, S, p) ==
  IF p > Len(cat) THEN <<>>
  ELSE (IF p \in S THEN <<cat[p]>> ELSE <<>>) \o PickFrom(cat, S, p + 1)

Listings ==
  { PickFrom(ListingCatalogue, S, 1) :
      S \in {S \in SUBSET (1..Len(ListingCatalogue)) : Cardinality(S) <= MaxListing} }

EnvListing(tree) ==
  [ trees |-> {tree},
    groqApiKey |-> TRUE,
    contents |-> [k \in 1..Len(FileNames) |-> {Ok(ContentOO)}],
    reviews |-> {Ok(TextBare)},
    manifests |-> {Ok(ManifestContent(TRUE, << <<"react", "-dom">> >>))} ]

InitListing == \E tree \in Listings : InitWith(EnvListing(tree))

SpecListing == InitListing /\ [][Next]_vars

(***************************************************************************)
(* Runs in which every request has one fixed answer: a listing of a        *)
(* manifest and up to MaxConcurrent code files, the contents of the files  *)
(* at odd and at even positions, and one reviewer text with a security     *)
(* section and recommendations.  What is left open is the order in which   *)
(* the answers of a batch arrive.                                          *)
(***************************************************************************)
MaxConcurrent == 4

EnvFixed(n) ==
  [ trees |-> {BigTree(n)},
    groqApiKey |-> TRUE,
    contents |-> [k \in 1..Len(FileNames) |->
                    IF k % 2 = 1 THEN {Ok(ContentOO)} ELSE {Ok(ContentHooks)}],
    reviews |-> {Ok(TextMarkdown)},
    manifests |-> {Ok(ManifestContent(TRUE, << <<"react", "-dom">> >>))} ]

InitFixed == \E n \in 0..MaxConcurrent : InitWith(EnvFixed(n))

SpecFixed == InitFixed /\ [][Next]_vars

(***************************************************************************)
(* Runs in which no manifest can be read: every manifest request is        *)
(* answered with a non-2xx status, is rejected, or returns a package.json  *)
(* that JSON.parse rejects.  The listings hold up to two manifests and two *)
(* code files; the other requests are answered in any way.                 *)
(***************************************************************************)
ManifestCatalogue ==
  << Entry(<<"package", ".", "json">>, "blob", 300),
     Entry(<<"web", "/", "package", ".", "json">>, "blob", 200),
     Entry(<<"src", "/", "a", ".", "ts">>, "blob", 1200),
     Entry(<<"b", ".", "py">>, "blob", 40) >>

UnreadableManifests ==
  {NotOk, Rejected, Ok(ManifestContent(FALSE, << <<"react">>, <<"vite">> >>))}

EnvUnreadable ==
  [EnvAny(TRUE) EXCEPT
     !.trees = { PickFrom(ManifestCatalogue, S, 1) :
                   S \in SUBSET (1..Len(ManifestCatalogue)) },
     !.manifests = UnreadableManifests]

InitUnreadable == InitWith(EnvUnreadable)

SpecUnreadable == InitUnreadable /\ [][Next]_vars

(***************************************************************************)
(* The final update after the review of one code file, the reviewer's text *)
(* being drawn from those of a given set of texts that pass validation.    *)
(***************************************************************************)
InitReviewed(texts) ==
  \E text \in texts :
    LET manifest == Entry(PackageJson, "blob", 300)
        code == Entry(<<FileNames[1], ".", "ts">>, "blob", 100)
        t == Reviewed([IdleTask EXCEPT !.fetched = 1, !.calls = 1], code, text)
    IN /\ t.result # <<>>
       /\ env = [EnvAny(TRUE) EXCEPT !.trees = {<<manifest, code>>},
                                     !.reviews = {Ok(text)}]
       /\ req = [authHeader |-> TRUE]
       /\ pc = "finalUpdate"
       /\ response = <<>>
       /\ record = PendingRecord
       /\ statusLog = <<"pending">>
       /\ allFiles = <<manifest, code>>
       /\ codeFiles = <<code>>
       /\ configFiles = <<manifest>>
       /\ cfg = 2
       /\ i = batchSize
       /\ task = <<t>>
       /\ batches = <<1>>
       /\ fileInsights = t.result
       /\ suggestions = Pushes(<<t>>, <<code>>, 1, "recommendations")
       /\ languageStats = [e \in {<<"ts">>} |-> 1]
       /\ frameworks = <<>>
       /\ tools = <<>>
       /\ architecturePatterns = <<>>
       /\ codeQualityIssues = Pushes(<<t>>, <<code>>, 1, "quality")
       /\ securityIssues = Pushes(<<t>>, <<code>>, 1, "security")
       /\ hostRequests = 4
       /\ reviewerRequests = 1

\* sequences over a set of tokens, of length at most n
RECURSIVE SeqsUpTo(_, _)
SeqsUpTo(toks, n) ==
  IF n = 0 THEN {<<>>}
  ELSE LET shorter == SeqsUpTo(toks, n - 1)
       IN shorter \cup {Append(s, c) : s \in shorter, c \in toks}

\* reviewer texts whose SCORE: marker is followed by up to MaxScoreLen
\* characters
MaxScoreLen == 3
ScoreTokens == {"0", "1", "5", " ", "x"}
ScoreTexts ==
  { <<"SCORE:">> \o part \o <<"\n", "TOP 5 ACTIONABLE RECOMMENDATIONS:">> :
      part \in SeqsUpTo(ScoreTokens, MaxScoreLen) }

InitParse == InitReviewed(ScoreTexts)

SpecParse == InitParse /\ [][FinalUpdateResponse]_vars

\* reviewer texts made of up to MaxSections different sections in any order,
\* one per line, each a header followed by a body of its own
MaxSections == 4

SectionBodies ==
  [h \in {HdrScore, HdrPurpose, HdrQuality, HdrArchitecture, HdrSecurity, HdrDebt,
          HdrTop5} |->
     CASE h = HdrScore -> <<"7">>
       [] h = HdrPurpose -> <<"parses">>
       [] h = HdrQuality -> <<"long">>
       [] h = HdrArchitecture -> <<"layers">>
       [] h = HdrSecurity -> <<"eval">>
       [] h = HdrDebt -> <<"todo">>
       [] h = HdrTop5 -> <<"test">>]

RECURSIVE SectionLines(_)
SectionLines(hs) ==
  IF hs = <<>> THEN <<>>
  ELSE <<Head(hs), " ">> \o SectionBodies[Head(hs)]
       \o (IF Len(hs) > 1 THEN <<"\n">> ELSE <<>>) \o SectionLines(Tail(hs))

SectionTexts ==
  { SectionLines(hs) :
      hs \in {hs \in SeqsUpTo(DOMAIN SectionBodies, MaxSections) :
                \A a, b \in 1..Len(hs) : a # b => hs[a] # hs[b]} }

InitSections == InitReviewed(SectionTexts)

SpecSections == InitSections /\ [][FinalUpdateResponse]_vars

(***************************************************************************)
(* Properties.                                                             *)
(***************************************************************************)
Last(s) == s[Len(s)]

\* the file of task k has an entry in list
HasInsight(list, k) == \E j \in 1..Len(list) : list[j].file = codeFiles[k].path

InFlight == {k \in DOMAIN task : task[k].pc \in {"fetch", "review"}}

\* requests to the repository host, and to the reviewer, that wait for an answer
OutstandingHost ==
  (IF pc \in {"fetchRepo", "fetchTree", "configFetch"} THEN 1 ELSE 0)
  + Cardinality({k \in DOMAIN task : task[k].pc = "fetch"})
OutstandingReviewer == Cardinality({k \in DOMAIN task : task[k].pc = "review"})

\* C1: for every code file the review loop issues at most 3 reviewer calls,
\* and once the third call is answered the task has ended, whatever the
\* answers were.
C1_AtMostThreeCalls ==
  \A k \in DOMAIN task :
    /\ task[k].calls <= 3
    /\ Len(task[k].got) <= 3
    /\ Len(task[k].got) = 3 => task[k].pc = "done"

C1_Witness ==
  \E k \in DOMAIN task :
    /\ task[k].calls = 3
    /\ task[k].got = <<"invalid", "invalid", "valid">>
    /\ task[k].pc = "done"

\* C2: after a response that fails validation, with fewer than 3 attempts
\* made, another reviewer call for the same file is outstanding; after 3
\* invalid responses the task has ended without a FileInsight.
C2_InvalidIsRetriedThenDropped ==
  \A k \in DOMAIN task :
    LET g == task[k].got IN
    (g # <<>> /\ Last(g) = "invalid") =>
      IF Len(g) < 3
      THEN task[k].pc = "review" /\ task[k].calls = Len(g) + 1
      ELSE /\ task[k].pc = "done"
           /\ task[k].result = <<>>
           /\ ~HasInsight(fileInsights, k)
           /\ ~HasInsight(record.file_insights, k)

C2_Witness ==
  \E k \in DOMAIN task :
    /\ task[k].got = <<"invalid", "invalid", "invalid">>
    /\ task[k].attempts = 3
    /\ record.status = "completed"
    /\ ~HasInsight(record.file_insights, k)

\* C3: a non-2xx reviewer response, on whichever attempt, is the last answer
\* the file's task receives: the task has ended, no further reviewer call was
\* made for the file, and the file has no FileInsight.
C3_NotOkAbandonsFile ==
  \A k \in DOMAIN task :
    LET g == task[k].got IN
    (\E j \in 1..Len(g) : g[j] = "notok") =>
      /\ Last(g) = "notok"
      /\ \A j \in 1..(Len(g) - 1) : g[j] # "notok"
      /\ task[k].pc = "done"
      /\ task[k].calls = Len(g)
      /\ task[k].result = <<>>
      /\ ~HasInsight(fileInsights, k)
      /\ ~HasInsight(record.file_insights, k)

C3_Witness ==
  \E k \in DOMAIN task :
    /\ task[k].got = <<"invalid", "notok">>
    /\ task[k].calls = 2
    /\ pc = "responded"

\* the batch (0, 1, ...) that position k of codeFiles belongs to
BatchIndex(k) == (k - 1) \div 10

\* C4: all tasks in flight belong to one batch, the one the batch loop is at;
\* a task of a later batch has started only if every task of every earlier
\* batch has finished; at most 10 tasks are in flight and at most 10 requests
\* to the repository host and 10 to the reviewer are outstanding.
C4_OneBatchAtATime ==
  /\ \A k \in InFlight : BatchIndex(k) = i \div 10
  /\ \A k1, k2 \in DOMAIN task :
       (BatchIndex(k1) < BatchIndex(k2) /\ task[k2].pc # "idle") => task[k1].pc = "done"
  /\ Cardinality(InFlight) <= 10
  /\ OutstandingHost <= 10
  /\ OutstandingReviewer <= 10

C4_Witness ==
  /\ Len(codeFiles) > 10
  /\ \A k \in 1..10 : task[k].pc = "done"
  /\ task[11].pc = "review"
  /\ task[12].pc = "fetch"

CeilDiv10(n) == (n + 9) \div 10

\* C5: when the batch loop is over, N code files were processed in exactly
\* ceil(N/10) batches, every batch but the last of 10 tasks and the last of
\* N - 10*(ceil(N/10) - 1) tasks, and every code file was in exactly one batch.
C5_BatchCount ==
  pc \in {"finalUpdate", "responded"} =>
    LET n == Len(codeFiles)
        b == CeilDiv10(n)
    IN /\ Len(batches) = b
       /\ \A j \in 1..(b - 1) : batches[j] = 10
       /\ b > 0 => batches[b] = n - 10 * (b - 1)
       /\ \A k \in 1..n : task[k].fetched = 1

C5_Witness ==
  /\ pc = "finalUpdate"
  /\ Len(codeFiles) = 12
  /\ batches = <<10, 2>>

\* C6 (as claimed): a record that was created has, when its run has ended,
\* changed its status exactly once, from pending to completed or to failed.
C6_StatusChangesOnce ==
  (pc = "responded" /\ record.status # "none") =>
    /\ Len(statusLog) = 2
    /\ statusLog[1] = "pending"
    /\ statusLog[2] \in {"completed", "failed"}

\* C7 (as claimed): a run that ends with an error response after its record
\* was created leaves the record with status failed, and the response carries
\* the error message.
C7_FailedRunMarksRecord ==
  (pc = "responded" /\ record.status # "none" /\ Last(response).status # 200) =>
    /\ record.status = "failed"
    /\ Last(response).error # ""

\* C8: status completed implies that the score is present and an integer in
\* [1,10]; status failed implies that the score is absent.
C8_ScoreMatchesStatus ==
  /\ record.status = "completed" =>
       Len(record.stack_score) = 1 /\ record.stack_score[1] \in 1..10
  /\ record.status = "failed" => record.stack_score = <<>>

C8_Witness ==
  /\ record.status = "completed"
  /\ Len(record.file_insights) = 2
  /\ record.stack_score = <<10>>

RepositoryErrors ==
  {"Repository not found or not accessible", "Failed to fetch file tree", "fetch failed"}

\* C9: a run that ended because repository resolution or the tree listing
\* failed has fetched no file content and called no reviewer (its only host
\* requests are the repository and the tree request), has written its record
\* only once (the pending insert), and has sent exactly one response, which
\* is non-2xx and carries an error message and no result.
C9_FatalHostFailure ==
  (response # <<>> /\ response[1].error \in RepositoryErrors) =>
    /\ pc = "responded"
    /\ hostRequests <= 2
    /\ \A k \in DOMAIN task : task[k].fetched = 0
    /\ reviewerRequests = 0
    /\ statusLog = <<"pending">>
    /\ record = PendingRecord
    /\ Len(response) = 1
    /\ response[1].status \notin 200..299
    /\ response[1].body = <<>>

C9_Witness ==
  /\ pc = "responded"
  /\ response = <<ErrorResponse("Failed to fetch file tree")>>
  /\ hostRequests = 2

\* C10: the aggregate score is an integer in [1,10], and it is 1 whenever the
\* insight list is empty, whatever patterns and frameworks were detected; the
\* score that is persisted and returned is the one computed from the insight
\* list and the profile.
C10_ScoreInRangeAndOneWhenEmpty ==
  /\ finalScore \in 1..10
  /\ fileInsights = <<>> => finalScore = 1
  /\ record.status = "completed" =>
       /\ record.stack_score = <<finalScore>>
       /\ Last(response).body[1].score = finalScore
       /\ record.file_insights = <<>> => record.stack_score = <<1>>

C10_Witness ==
  /\ record.status = "completed"
  /\ record.file_insights = <<>>
  /\ Len(codeFiles) > 0
  /\ Len(architecturePatterns) = 4
  /\ Len(frameworks) = 5
  /\ record.stack_score = <<1>>

(***************************************************************************)
(* C11: with a non-empty insight list the persisted score is               *)
(* round(avg + min(2, 0.5 A) + min(1, 0.2 F) - min(2, 0.3 S)) clamped to   *)
(* [1,10], the formula being read over the rationals (kept exact here as a *)
(* multiple of 1/(10 n)); A, F and S are the pattern, framework and        *)
(* security counts of the persisted tech-stack profile.                    *)
(***************************************************************************)
C11_ScoreIsRoundedFormula ==
  (record.status = "completed" /\ record.file_insights # <<>>) =>
    LET n == Len(record.file_insights)
        sum == SumSeq(Scores(record.file_insights))
        A == Len(record.tech_stack[1].architecture_patterns)
        F == Len(record.tech_stack[1].frameworks)
        S == record.tech_stack[1].security_issues_count
        x == 10 * sum + n * (Min(20, 5 * A) + Min(10, 2 * F) - Min(20, 3 * S))
        rounded == (x + 5 * n) \div (10 * n)
    IN record.stack_score = <<Max(1, Min(10, rounded))>>

(***************************************************************************)
(* C12: the suggestions list of every completed record has at most 20      *)
(* entries, however many strings the three lists collected.                *)
(***************************************************************************)
C12_AtMostTwentySuggestions ==
  record.status = "completed" => Len(record.suggestions) <= 20

\* more than 10 suggestions, 5 quality issues and 5 security issues were
\* collected and the persisted list holds exactly 20 of them
C12_Witness ==
  /\ record.status = "completed"
  /\ Len(suggestions) > 10
  /\ Len(codeQualityIssues) > 5
  /\ Len(securityIssues) > 5
  /\ Len(record.suggestions) = 20

(***************************************************************************)
(* C13: a run that ends with no FileInsight, because no file was           *)
(* classified as relevant or because every code file's fetch or review     *)
(* failed, is not an error: once its record is written it is completed     *)
(* with score 1 and the caller gets a success response with score 1 and    *)
(* filesAnalyzed 0; the only errors a run can answer with are those of the *)
(* mandatory stages, never the failure of a file.                          *)
(***************************************************************************)
MandatoryErrors ==
  {"Authorization header missing", "User not authenticated",
   "Failed to create analysis record", "Repository not found or not accessible",
   "Failed to fetch file tree", "fetch failed", "Failed to update analysis"}

C13_NoInsightIsNotAnError ==
  /\ (record.status = "completed" /\ record.file_insights = <<>>) =>
       /\ record.stack_score = <<1>>
       /\ pc = "responded"
       /\ Len(response) = 1
       /\ response[1].status = 200
       /\ response[1].body[1].success
       /\ response[1].body[1].score = 1
       /\ response[1].body[1].filesAnalyzed = 0
  /\ (pc = "finalUpdate" /\ fileInsights = <<>>) => finalScore = 1
  /\ \A r \in Range(response) : r.status # 200 => r.error \in MandatoryErrors

\* two code files, one whose content fetch failed and one whose review
\* failed, and the run completed with score 1
C13_Witness ==
  /\ record.status = "completed"
  /\ record.file_insights = <<>>
  /\ Len(codeFiles) = 2
  /\ \E k \in DOMAIN task : task[k].got = <<>>
  /\ \E k \in DOMAIN task : task[k].got # <<>>
  /\ response = <<SuccessResponse([success |-> TRUE, analysisId |-> AnalysisId,
                                   score |-> 1, filesAnalyzed |-> 0,
                                   languages |-> 1, frameworks |-> 0,
                                   securityIssues |-> 0])>>

(***************************************************************************)
(* C14: within a batch the tasks are isolated from each other.  A step of  *)
(* one file's task (whatever it received: a failed fetch, a reviewer       *)
(* error, a rejection, an invalid answer to retry, the last invalid        *)
(* answer) changes no other task; a task that ended with a result holds    *)
(* the insight computed from its own file and its own valid answer, and    *)
(* after the join that insight is in the insight list exactly when the     *)
(* task has a result; a task that waits for an answer can always take it,  *)
(* and the join is possible as soon as every task of the batch is done.    *)
(***************************************************************************)
Joined(k) == task[k].pc = "done" /\ (pc = "batch" => k <= i)

TasksIsolated ==
  \A k \in DOMAIN task :
    /\ task[k].result # <<>> =>
         /\ validateResponseFormat(task[k].analysis)
         /\ task[k].result = <<Insight(codeFiles[k], task[k].analysis)>>
    /\ Joined(k) =>
         /\ task[k].result # <<>> => \E j \in 1..Len(fileInsights) :
                                        fileInsights[j] = task[k].result[1]
         /\ task[k].result = <<>> => ~HasInsight(fileInsights, k)
    /\ (pc = "batch" /\ task[k].pc = "fetch") => ENABLED TaskContent(k)
    /\ (pc = "batch" /\ task[k].pc = "review") => ENABLED TaskReview(k)

TaskStepIsLocal ==
  (pc = "batch" /\ pc' = "batch" /\ i' = i) =>
    \A k, j \in DOMAIN task :
      (k # j /\ task'[k] # task[k]) => task'[j] = task[j]

C14_TasksOfABatchAreIsolated ==
  /\ [](TasksIsolated /\ ((pc = "batch" /\ BatchDone(i)) => ENABLED BatchJoin))
  /\ [][TaskStepIsLocal]_vars

\* a joined batch of two files: the first file's reviewer call failed after
\* an invalid answer, and the second file, reviewed after two invalid
\* answers, has its insight in the list
C14_Witness ==
  /\ pc = "finalUpdate"
  /\ Len(codeFiles) = 2
  /\ task[1].got = <<"invalid", "notok">> /\ task[1].result = <<>>
  /\ task[2].got = <<"invalid", "invalid", "valid">>
  /\ fileInsights = task[2].result

(***************************************************************************)
(* C15: a code file that was skipped (its content fetch failed, its        *)
(* reviewer call failed, or its retries were exhausted) is excluded from   *)
(* the persisted result: the completed record holds no insight and no      *)
(* suggestion or issue string of that file, its language counts count the  *)
(* reviewed files only, and with no reviewed file at all no architecture   *)
(* pattern is recorded.                                                    *)
(***************************************************************************)
Skipped(k) == task[k].pc = "done" /\ task[k].result = <<>>

C15_SkippedFileAddsNothing ==
  (record.status = "completed" /\ allFiles # <<>>) =>
    LET profile == record.tech_stack[1] IN
    /\ \A k \in DOMAIN task : Skipped(k) =>
         /\ ~HasInsight(record.file_insights, k)
         /\ ~HasInsight(record.suggestions, k)
    /\ \A e \in DOMAIN profile.languages :
         profile.languages[e] =
           Cardinality({j \in 1..Len(record.file_insights) :
                          record.file_insights[j].extension = e})
    /\ record.file_insights = <<>> => profile.architecture_patterns = <<>>

(***************************************************************************)
(* C16: for every tree listing, no entry that is not a blob, or whose path *)
(* lies under a node_modules, .git, dist or build directory, or whose size *)
(* exceeds 100,000 bytes, is classified as code or manifest, so none is    *)
(* fetched or reviewed: the files kept, the manifests fetched and the      *)
(* tasks started are those of the entries that are not excluded, and the   *)
(* host is asked for nothing else.                                         *)
(***************************************************************************)
UnderDirectory(path, dir) ==
  \E p \in 1..Len(path) :
    /\ p = 1 \/ path[p - 1] = "/"
    /\ p + Len(dir) <= Len(path)
    /\ SubSeq(path, p, p + Len(dir)) = dir \o <<"/">>

Excluded(f) ==
  \/ f.type # "blob"
  \/ \E dir \in {<<"node_modules">>, <<".", "git">>, <<"dist">>, <<"build">>} :
       UnderDirectory(f.path, dir)
  \/ f.size > 100000

C16_ExcludedEntriesAreNeverAnalysed ==
  /\ \A tree \in env.trees : \A f \in Range(tree) :
       Excluded(f) => f \notin Range(allFilesOf(tree)) \cup Range(codeFilesOf(tree))
                                \cup Range(configFilesOf(tree))
  /\ \A f \in Range(allFiles) \cup Range(codeFiles) \cup Range(configFiles) : ~Excluded(f)
  /\ DOMAIN task = DOMAIN codeFiles
  /\ cfg <= Len(configFiles) + 1
  /\ hostRequests <= 2 + Len(configFiles) + Len(codeFiles)
  /\ reviewerRequests <= MaxAttempts * Len(codeFiles)
  /\ \A j \in 1..Len(fileInsights) : \E f \in Range(codeFiles) :
       ~Excluded(f) /\ fileInsights[j].file = f.path

\* a listing of one code file, one manifest under build and one code file
\* above the ceiling: only the first was fetched and reviewed
C16_Witness ==
  /\ env.trees = {<<ListingCatalogue[1], ListingCatalogue[8], ListingCatalogue[9]>>}
  /\ record.status = "completed"
  /\ allFiles = <<ListingCatalogue[1]>>
  /\ configFiles = <<>>
  /\ hostRequests = 3
  /\ reviewerRequests = 1
  /\ Len(fileInsights) = 1

(***************************************************************************)
(* C17: for fixed responses of the repository host and the reviewer the    *)
(* persisted completed record is the same under every order in which the   *)
(* tasks of a batch make progress.  One of these orders is the order of    *)
(* the files, so the record of every completed run has to be the record of *)
(* that order: the insights in file order with the score computed from     *)
(* them, the suggestion and issue strings in file order, and the           *)
(* architecture patterns in the order in which the files show them.        *)
(***************************************************************************)
ContentOf(k) == (CHOOSE o \in env.contents[k] : TRUE).body

RECURSIVE PatternsInFileOrder(_)
PatternsInFileOrder(k) ==
  IF k = 0 THEN <<>>
  ELSE SetAddAll(PatternsInFileOrder(k - 1), architectureTags(ContentOf(k)))

C17_RecordIndependentOfInterleaving ==
  (record.status = "completed" /\ allFiles # <<>>) =>
    LET n == Len(codeFiles)
        insights == validResults(task, 1, n)
        patterns == PatternsInFileOrder(n)
        security == Pushes(task, codeFiles, 1, "security")
    IN /\ record.file_insights = insights
       /\ record.stack_score =
            <<finalScoreOf(insights, Len(patterns),
                           Len(record.tech_stack[1].frameworks), Len(security))>>
       /\ record.suggestions =
            Take(Pushes(task, codeFiles, 1, "recommendations"), 10)
            \o Take(Pushes(task, codeFiles, 1, "quality"), 5)
            \o Take(security, 5)
       /\ record.tech_stack[1].architecture_patterns = patterns
       /\ record.summary[1].architecture = patterns

(***************************************************************************)
(* C18: every success response carries success = true together with       *)
(* analysisId, score, filesAnalyzed, languages, frameworks and             *)
(* securityIssues, on every path that ends in success; every failure       *)
(* response has a non-2xx status and an error string.                      *)
(***************************************************************************)
SuccessFields ==
  {"success", "analysisId", "score", "filesAnalyzed", "languages", "frameworks",
   "securityIssues"}

C18_ResponseShape ==
  \A r \in Range(response) :
    IF r.status \in 200..299
    THEN /\ r.body # <<>>
         /\ DOMAIN r.body[1] = SuccessFields
         /\ r.body[1].success
    ELSE /\ r.error # ""
         /\ r.body = <<>>

(***************************************************************************)
(* C19: in every run the analysis record is inserted with status pending   *)
(* before the first request to the repository host or to the reviewer:     *)
(* whenever a request has been made the record exists, its first status    *)
(* was pending, and no request is made in a step that starts without it.   *)
(***************************************************************************)
RequestsMade == hostRequests + reviewerRequests

PendingBeforeRequests ==
  RequestsMade > 0 =>
    /\ record.status \in {"pending", "completed"}
    /\ statusLog # <<>>
    /\ statusLog[1] = "pending"

RequestNeedsRecord ==
  (hostRequests' > hostRequests \/ reviewerRequests' > reviewerRequests) =>
    (record.status = "pending" \/ record'.status = "pending")

C19_PendingInsertPrecedesRequests ==
  []PendingBeforeRequests /\ [][RequestNeedsRecord]_vars

\* the repository request is out, the first of the run, and the record is
\* pending
C19_Witness ==
  /\ pc = "fetchRepo"
  /\ hostRequests = 1
  /\ reviewerRequests = 0
  /\ record = PendingRecord
  /\ statusLog = <<"pending">>

(***************************************************************************)
(* C20: a manifest whose content fetch returns non-2xx or throws, or whose *)
(* content cannot be parsed (a package.json that JSON.parse rejects), is   *)
(* skipped.  When every manifest is of that kind, no tool is ever recorded *)
(* and the only frameworks are those seen in code files; the step that     *)
(* takes a manifest's answer moves on to the next manifest or to the code  *)
(* files and never answers the caller, and no error response is due to a   *)
(* manifest.                                                               *)
(***************************************************************************)
SkippedManifestsAddNothing ==
  /\ tools = <<>>
  /\ \A f \in Range(frameworks) : \E c \in CodeContents : f \in Range(codeFrameworkTags(c))
  /\ \A r \in Range(response) : r.status # 200 => r.error \in MandatoryErrors
  /\ record.status = "completed" /\ allFiles # <<>> =>
       /\ record.tech_stack[1].tools = <<>>
       /\ record.tech_stack[1].frameworks = frameworks

ManifestStepGoesOn ==
  pc = "configFetch" =>
    /\ cfg' = cfg + 1
    /\ pc' \in {"configFetch", "batch", "finalUpdate"}
    /\ pc' = "configFetch" <=> cfg < Len(configFiles)
    /\ pc' = "batch" => \A k \in DOMAIN codeFiles : task'[k].pc = "fetch"
    /\ response' = response

C20_UnreadableManifestIsSkipped ==
  []SkippedManifestsAddNothing /\ [][ManifestStepGoesOn]_vars

\* two manifests were skipped, both code files were reviewed and the run
\* completed with no tool and no framework
C20_Witness ==
  /\ record.status = "completed"
  /\ Len(configFiles) = 2
  /\ cfg = 3
  /\ Len(record.file_insights) = 2
  /\ record.tech_stack[1].frameworks = <<>>
  /\ record.tech_stack[1].tools = <<>>

(***************************************************************************)
(* C21: during a run the frameworks, tools and architecture-pattern sets,  *)
(* the language counts and the three issue lists only grow: every step     *)
(* keeps what a set or list held, in place, and lowers no count.           *)
(***************************************************************************)
Prefix(a, b) == Len(a) <= Len(b) /\ SubSeq(b, 1, Len(a)) = a

AccumulatorsGrow ==
  /\ Prefix(frameworks, frameworks')
  /\ Prefix(tools, tools')
  /\ Prefix(architecturePatterns, architecturePatterns')
  /\ Prefix(suggestions, suggestions')
  /\ Prefix(codeQualityIssues, codeQualityIssues')
  /\ Prefix(securityIssues, securityIssues')
  /\ DOMAIN languageStats \subseteq DOMAIN languageStats'
  /\ \A e \in DOMAIN languageStats : languageStats[e] <= languageStats'[e]

C21_AccumulatorsOnlyGrow == [][AccumulatorsGrow]_vars

\* every accumulator has grown: two frameworks, a tool, two patterns, two
\* languages and a string in each list
C21_Witness ==
  /\ Len(frameworks) >= 2
  /\ Len(tools) >= 1
  /\ Len(architecturePatterns) >= 2
  /\ Cardinality(DOMAIN languageStats) = 2
  /\ Len(suggestions) >= 1
  /\ Len(codeQualityIssues) >= 1
  /\ Len(securityIssues) >= 1

(***************************************************************************)
(* C22: no update to the shared accumulators is lost under any             *)
(* interleaving of the tasks of a batch.  With every content served and    *)
(* every review valid, in every state each language count is the number of *)
(* tasks whose content has arrived, every tag of such a content is in the  *)
(* pattern and framework sets, and every task that ended with a result has *)
(* its security and recommendation strings in the lists, which hold one    *)
(* string per such task; the completed record carries these counts.        *)
(***************************************************************************)
Counted(k) == task[k].pc \in {"review", "done"}
Pushed(list, k, body) ==
  body # <<>> => Labelled(codeFiles[k].path, body) \in Range(list)

C22_NoLostUpdate ==
  LET counted == {k \in DOMAIN task : Counted(k)}
      ended == {k \in DOMAIN task : task[k].result # <<>>}
  IN /\ \A e \in DOMAIN languageStats :
          languageStats[e] =
            Cardinality({k \in counted : fileExtensionOf(codeFiles[k].path) = e})
     /\ \A k \in counted :
          /\ fileExtensionOf(codeFiles[k].path) \in DOMAIN languageStats
          /\ Range(architectureTags(ContentOf(k))) \subseteq Range(architecturePatterns)
          /\ Range(codeFrameworkTags(ContentOf(k))) \subseteq Range(frameworks)
     /\ \A k \in ended :
          /\ Pushed(codeQualityIssues, k, qualityIssuesMatch(task[k].analysis))
          /\ Pushed(securityIssues, k, securityIssuesMatch(task[k].analysis))
          /\ Pushed(suggestions, k, recommendationsMatch(task[k].analysis))
     /\ Len(securityIssues) = Cardinality(ended)
     /\ Len(suggestions) = Cardinality(ended)
     /\ (record.status = "completed" /\ allFiles # <<>>) =>
          /\ record.tech_stack[1].languages = languageStats
          /\ record.tech_stack[1].security_issues_count = Cardinality(ended)
          /\ Cardinality(counted) = Len(codeFiles)

\* four tasks ran in one batch, the last file's review completed first, and
\* all four increments and pushes are in the persisted record
C22_Witness ==
  /\ record.status = "completed"
  /\ Len(codeFiles) = 4
  /\ record.tech_stack[1].languages[<<"ts">>] = 4
  /\ Len(suggestions) = 4
  /\ suggestions[1].file = codeFiles[4].path
  /\ Len(architecturePatterns) = 2

(***************************************************************************)
(* C23: the per-file score is the integer that follows the SCORE: marker,  *)
(* clamped to [1,10] (0 gives 1, 15 gives 10), and is 7 when the marker is *)
(* followed by nothing that parses as an integer.  The integer is the run  *)
(* of digits that comes after the marker and any white space.              *)
(***************************************************************************)
RECURSIVE DropSpace(_)
DropSpace(s) == IF s # <<>> /\ Head(s) \in {" ", "\n"} THEN DropSpace(Tail(s)) ELSE s

RECURSIVE DigitRun(_)
DigitRun(s) ==
  IF s # <<>> /\ IsDigit(Head(s)) THEN <<Head(s)>> \o DigitRun(Tail(s)) ELSE <<>>

RECURSIVE Decimal(_)
Decimal(d) ==
  IF d = <<>> THEN 0 ELSE 10 * Decimal(SubSeq(d, 1, Len(d) - 1)) + DigitVal(d[Len(d)])

\* what follows the only score marker of a text
AfterMarker(text) ==
  LET p == CHOOSE p \in 1..Len(text) : text[p] \in {"SCORE:", "score:"}
  IN SubSeq(text, p + 1, Len(text))

Collected(list, hdr) ==
  \A j \in 1..Len(fileInsights) :
    LET present == hdr \in Range(fileInsights[j].analysis)
        strings == {s \in Range(list) : s.file = fileInsights[j].file}
    IN /\ present => strings = {Labelled(fileInsights[j].file, SectionBodies[hdr])}
       /\ ~present => strings = {}

C24_SectionsKeepToThemselves ==
  /\ Collected(codeQualityIssues, HdrQuality)
  /\ Collected(securityIssues, HdrSecurity)
  /\ Collected(suggestions, HdrTop5)

(***************************************************************************)
(* C25: each code file's content is requested from the repository host at  *)
(* most once per run.  The host is asked for the repository, the tree, the *)
(* manifests reached so far and one content per started task, and a step   *)
(* in which a reviewer answer is taken (detection has run by then, a retry *)
(* may follow) makes no request to the host.                               *)
(***************************************************************************)
ContentFetchedOnce ==
  /\ \A k \in DOMAIN task : task[k].fetched <= 1
  /\ pc \in {"configFetch", "batch", "finalUpdate"} =>
       hostRequests = 2 + Min(cfg, Len(configFiles))
                        + Cardinality({k \in DOMAIN task : task[k].fetched = 1})

ReviewStepFetchesNothing ==
  (\E k \in DOMAIN task : task[k].pc = "review" /\ task'[k] # task[k]) =>
    /\ hostRequests' = hostRequests
    /\ \A k \in DOMAIN task : task'[k].fetched = task[k].fetched

C25_ContentRequestedOnce ==
  []ContentFetchedOnce /\ [][ReviewStepFetchesNothing]_vars

\* a file was reviewed three times on one content fetch
C25_Witness ==
  /\ pc = "finalUpdate"
  /\ \E k \in DOMAIN task :
       /\ task[k].calls = 3
       /\ task[k].got = <<"invalid", "invalid", "valid">>
       /\ task[k].fetched = 1
  /\ hostRequests = 2 + Len(configFiles) + Len(codeFiles)

(***************************************************************************)
(* C26: every file insight of the result belongs to a code file of the     *)
(* listing, no two insights belong to the same file, the stored text holds *)
(* none of the characters * # _ - and holds both the SCORE: marker and the *)
(* TOP 5 ACTIONABLE RECOMMENDATIONS: marker, the score is an integer from  *)
(* 1 to 10, and there are never more insights than code files.  This holds *)
(* for the list being built and for the list written to the record.        *)
(***************************************************************************)
WellFormedInsights(list) ==
  /\ Len(list) <= Len(codeFiles)
  /\ \A j \in 1..Len(list) :
       /\ \E k \in 1..Len(codeFiles) : codeFiles[k].path = list[j].file
       /\ \A j2 \in 1..Len(list) : j2 # j => list[j2].file # list[j].file
       /\ Range(list[j].analysis) \cap {"*", "#", "_", "-"} = {}
       /\ "SCORE:" \in Range(list[j].analysis)
       /\ "TOP 5 ACTIONABLE RECOMMENDATIONS:" \in Range(list[j].analysis)
       /\ list[j].score \in 1..10

C26_InsightsAreWellFormed ==
  /\ WellFormedInsights(fileInsights)
  /\ (record # NoRecord /\ record.status = "completed") =>
        WellFormedInsights(record.file_insights)
  /\ \A k \in DOMAIN task :
       task[k].result # <<>> => /\ WellFormedInsights(task[k].result)
                                /\ task[k].result[1].file = codeFiles[k].path

C26_Witness ==
  /\ pc = "responded"
  /\ record # NoRecord
  /\ record.status = "completed"
  /\ Len(record.file_insights) = 2
  /\ Len(codeFiles) = 2
  /\ record.file_insights[1].score = 10
  /\ \E k \in DOMAIN task : "invalid" \in Range(task[k].got)

(***************************************************************************)
(* C27: a success response exists only when the record is completed, and   *)
(* its score and filesAnalyzed are the persisted score and the number of   *)
(* persisted file insights; the step that ends an update either writes the *)
(* completed record and answers success, or leaves the record as it was    *)
(* and answers with the update error; after a failed update there is no    *)
(* success response.                                                       *)
(***************************************************************************)
SuccessMatchesRecord ==
  \A j \in 1..Len(response) :
    response[j].status = 200 =>
      /\ record # NoRecord
      /\ record.status = "completed"
      /\ statusLog # <<>>
      /\ statusLog[Len(statusLog)] = "completed"
      /\ response[j].body[1].score = record.stack_score[1]
      /\ response[j].body[1].filesAnalyzed = Len(record.file_insights)

FailedUpdateIsAnError ==
  \A j \in 1..Len(response) :
    response[j].error = "Failed to update analysis" =>
      /\ response[j].status = 500
      /\ record = PendingRecord
      /\ \A j2 \in 1..Len(response) : response[j2].status # 200

UpdateStepAnswers ==
  (pc \in {"finalUpdate", "noFilesUpdate"} /\ pc' # pc) =>
    \/ /\ record'.status = "completed"
       /\ statusLog' = Append(statusLog, "completed")
       /\ Len(response') = Len(response) + 1
       /\ response'[Len(response')].status = 200
    \/ /\ record' = record
       /\ statusLog' = statusLog
       /\ response' = Append(response, ErrorResponse("Failed to update analysis"))

C27_SuccessOnlyAfterCompletedWrite ==
  []SuccessMatchesRecord /\ []FailedUpdateIsAnError /\ [][UpdateStepAnswers]_vars

C27_Witness ==
  /\ pc = "responded"
  /\ Len(response) = 1
  /\ response[1].status = 200
  /\ response[1].body[1].filesAnalyzed = 2
  /\ response[1].body[1].score = 9
  /\ record.stack_score = <<9>>
  /\ Len(record.file_insights) = 2

(***************************************************************************)
(* C28: a request without an authorization header, or whose user is not    *)
(* resolved, ends with a 500 response while no record exists and no        *)
(* request to the repository host or to the reviewer has been made; and    *)
(* until the user is resolved nothing of the kind exists either.           *)
(***************************************************************************)
AuthErrors == {"Authorization header missing", "User not authenticated"}

NothingStarted ==
  /\ record = NoRecord
  /\ statusLog = <<>>
  /\ hostRequests = 0
  /\ reviewerRequests = 0
  /\ task = <<>>

UnauthenticatedFailsFirst ==
  /\ (~req.authHeader /\ pc # "idle") =>
        /\ pc = "responded"
        /\ response = <<ErrorResponse("Authorization header missing")>>
  /\ pc \in {"idle", "getUser"} => NothingStarted /\ response = <<>>
  /\ \A j \in 1..Len(response) :
       response[j].error \in AuthErrors =>
         /\ response[j].status = 500
         /\ Len(response) = 1
         /\ NothingStarted

UnresolvedUserStep ==
  (pc = "getUser" /\ pc' = "responded") =>
    /\ response' = <<ErrorResponse("User not authenticated")>>
    /\ NothingStarted'

C28_UnauthenticatedFailsBeforeAnyWork ==
  []UnauthenticatedFailsFirst /\ [][UnresolvedUserStep]_vars

C28_Witness ==
  /\ req.authHeader
  /\ pc = "responded"
  /\ response = <<ErrorResponse("User not authenticated")>>
  /\ NothingStarted

(***************************************************************************)
(* Every awaited call settles: the handler is suspended only at an await,  *)
(* each action is the continuation of one awaited call, so while a call is *)
(* pending some continuation is enabled and is eventually run.             *)
(***************************************************************************)
SpecLive == Init /\ [][Next]_vars /\ WF_vars(Next)

(***************************************************************************)
(* C29: when every external call settles, the request eventually has       *)
(* exactly one response, a success (200) or an error (500); there are      *)
(* never two, and a response once sent is not changed or followed by       *)
(* another.                                                                *)
(***************************************************************************)
OneResponse ==
  /\ Len(response) = 1
  /\ \/ response[1].status = 200 /\ response[1].error = "" /\ response[1].body # <<>>
     \/ response[1].status = 500 /\ response[1].error # "" /\ response[1].body = <<>>

AtMostOneResponse ==
  /\ Len(response) <= 1
  /\ response # <<>> <=> pc = "responded"
  /\ response # <<>> => OneResponse

ResponseIsFinal == response # <<>> => response' = response

C29_ExactlyOneResponse ==
  /\ <>[](pc = "responded" /\ OneResponse)
  /\ []AtMostOneResponse
  /\ [][ResponseIsFinal]_vars

C29_Witness ==
  /\ pc = "responded"
  /\ OneResponse
  /\ response[1].status = 200
  /\ \E k \in DOMAIN task : task[k].calls = 3
  /\ \E k \in DOMAIN task : task[k].result = <<>>

(***************************************************************************)
(* Runs over two batches in which the order of completion shows: a listing *)
(* of a manifest and OrderFiles code files, of which only the last two of  *)
(* the first batch and the one of the second batch have a readable         *)
(* content; the reviewer answers with recommendations, so the shared       *)
(* suggestion list records which task finished first.                      *)
(***************************************************************************)
OrderFiles == batchSize + 1

EnvOrder(n) ==
  [ trees |-> {BigTree(n)},
    groqApiKey |-> TRUE,
    contents |-> [k \in 1..Len(FileNames) |->
                    IF k >= batchSize - 1 THEN {Ok(ContentOO)} ELSE {NotOk}],
    reviews |-> {Ok(TextMarkdown)},
    manifests |-> {Ok(ManifestContent(TRUE, << <<"react", "-dom">> >>))} ]

InitOrder == \E n \in {0, OrderFiles} : InitWith(EnvOrder(n))

SpecOrder == InitOrder /\ [][Next]_vars

(***************************************************************************)
(* C30: the file insights, while they are collected and as they are        *)
(* written to the record, stand in the order of the code files they belong *)
(* to: an insight of an earlier code file comes before an insight of a     *)
(* later one, across batches and within a batch, in whatever order the     *)
(* tasks of a batch finish.                                                *)
(***************************************************************************)
PositionOf(path) == CHOOSE k \in 1..Len(codeFiles) : codeFiles[k].path = path

InInputOrder(list) ==
  \A j1, j2 \in 1..Len(list) :
    /\ \E k \in 1..Len(codeFiles) : codeFiles[k].path = list[j1].file
    /\ j1 < j2 => PositionOf(list[j1].file) < PositionOf(list[j2].file)

C30_InsightsInInputOrder ==
  /\ InInputOrder(fileInsights)
  /\ (record # NoRecord /\ record.status = "completed") =>
        InInputOrder(record.file_insights)

C30_Witness ==
  /\ record # NoRecord
  /\ record.status = "completed"
  /\ batches = <<batchSize, 1>>
  /\ Len(record.file_insights) = 3
  /\ record.file_insights[1].file = codeFiles[batchSize - 1].path
  /\ record.file_insights[2].file = codeFiles[batchSize].path
  /\ record.file_insights[3].file = codeFiles[batchSize + 1].path
  /\ suggestions[1].file = codeFiles[batchSize].path
  /\ suggestions[2].file = codeFiles[batchSize - 1].path

====
